---- MODULE Spec2Model ----
(***************************************************************************)
(* A model of the WOUDC Extended CSV engine (woudc_extcsv/__init__.py and  *)
(* woudc_extcsv/util.py): the parser of ExtendedCSV.__init__, the table    *)
(* builder, the structural validators, the collimator and the serializer.  *)
(*                                                                         *)
(* Strings are sequences of one-character strings, so that the string      *)
(* operations of the code (startswith, strip, rstrip, replace, split,      *)
(* lower, concatenation of an occurrence suffix) are computed and not      *)
(* assumed.  A text is the sequence of rows that csv.reader yields for it. *)
(***************************************************************************)
EXTENDS Integers, Sequences, FiniteSets, TLC

\* ------------------------------------------------------------------------
\* Strings
\* ------------------------------------------------------------------------

\* the result of a step handed to what follows it: the assignment of a
\* local variable
With(x, F(_)) == F(x)

Range(s) == { s[i] : i \in 1..Len(s) }

Digits == {"0", "1", "2", "3", "4", "5", "6", "7", "8", "9"}

Whitespace == {" "}

\* str.startswith
StartsWith(s, p) ==
    /\ Len(s) >= Len(p)
    /\ SubSeq(s, 1, Len(p)) = p

\* the slice s[i:] of Python, with the 1-based index of its first element
Tail_(s, i) == SubSeq(s, i, Len(s))

\* `sub in s` for strings
Contains(s, sub) ==
    \E i \in 1..(Len(s) - Len(sub) + 1) : SubSeq(s, i, i + Len(sub) - 1) = sub

\* str.replace(sub, rep): non-overlapping occurrences, left to right
RECURSIVE Replace(_, _, _)
Replace(s, sub, rep) ==
    IF Len(s) < Len(sub) \/ Len(sub) = 0 THEN s
    ELSE IF SubSeq(s, 1, Len(sub)) = sub
         THEN rep \o Replace(Tail_(s, Len(sub) + 1), sub, rep)
         ELSE <<s[1]>> \o Replace(Tail_(s, 2), sub, rep)

\* str.split(ch) for a one-character separator
RECURSIVE Split(_, _)
Split(s, ch) ==
    IF \A i \in 1..Len(s) : s[i] # ch THEN <<s>>
    ELSE LET k == CHOOSE i \in 1..Len(s) :
                     /\ s[i] = ch
                     /\ \A j \in 1..(i - 1) : s[j] # ch
         IN  <<SubSeq(s, 1, k - 1)>> \o Split(Tail_(s, k + 1), ch)

\* str.lstrip(chars)
RECURSIVE LStrip(_, _)
LStrip(s, chars) ==
    IF Len(s) > 0 /\ s[1] \in chars THEN LStrip(Tail_(s, 2), chars) ELSE s

\* str.rstrip(chars)
RECURSIVE RStrip(_, _)
RStrip(s, chars) ==
    IF Len(s) > 0 /\ s[Len(s)] \in chars
    THEN RStrip(SubSeq(s, 1, Len(s) - 1), chars) ELSE s

\* str.strip()
Strip(s) == RStrip(LStrip(s, Whitespace), Whitespace)

LowerChar(c) ==
    CASE c = "A" -> "a" [] c = "B" -> "b" [] c = "C" -> "c" [] c = "D" -> "d"
      [] c = "E" -> "e" [] c = "F" -> "f" [] c = "G" -> "g" [] c = "H" -> "h"
      [] c = "I" -> "i" [] c = "J" -> "j" [] c = "K" -> "k" [] c = "L" -> "l"
      [] c = "M" -> "m" [] c = "N" -> "n" [] c = "O" -> "o" [] c = "P" -> "p"
      [] c = "Q" -> "q" [] c = "R" -> "r" [] c = "S" -> "s" [] c = "T" -> "t"
      [] c = "U" -> "u" [] c = "V" -> "v" [] c = "W" -> "w" [] c = "X" -> "x"
      [] c = "Y" -> "y" [] c = "Z" -> "z" [] OTHER -> c

\* str.lower()
Lower(s) == [i \in 1..Len(s) |-> LowerChar(s[i])]

\* str(n) for the small non-negative integers the model needs
DigitChar(n) ==
    CASE n = 0 -> "0" [] n = 1 -> "1" [] n = 2 -> "2" [] n = 3 -> "3"
      [] n = 4 -> "4" [] n = 5 -> "5" [] n = 6 -> "6" [] n = 7 -> "7"
      [] n = 8 -> "8" [] n = 9 -> "9"

RECURSIVE IntToStr(_)
IntToStr(n) ==
    IF n < 10 THEN <<DigitChar(n)>>
    ELSE IntToStr(n \div 10) \o <<DigitChar(n % 10)>>

\* ------------------------------------------------------------------------
\* woudc_extcsv/util.py
\* ------------------------------------------------------------------------

\* util.non_content_line: a blank line or a comment
non_content_line(line) ==
    IF Len(line) = 0 THEN TRUE
    ELSE IF Len(line) = 1
         THEN Len(Strip(line[1])) = 0 \/ StartsWith(Strip(line[1]), <<"*">>)
         ELSE StartsWith(Strip(line[1]), <<"*">>)

\* util._table_index
_table_index(table, index) ==
    IF index > 1 THEN table \o <<"_">> \o IntToStr(index) ELSE table

\* ------------------------------------------------------------------------
\* Insertion-ordered dictionaries: a sequence of [k, v] entries, kept in
\* insertion order as Python's dict / OrderedDict keep theirs
\* ------------------------------------------------------------------------

Keys(od) == [i \in 1..Len(od) |-> od[i].k]

Has(od, key) == \E i \in 1..Len(od) : od[i].k = key

IndexOf(od, key) == CHOOSE i \in 1..Len(od) : od[i].k = key

Get(od, key) == od[IndexOf(od, key)].v

\* od[key] = val: an existing key keeps its position, a new key goes last
Put(od, key, val) ==
    IF Has(od, key)
    THEN [od EXCEPT ![IndexOf(od, key)] = [k |-> key, v |-> val]]
    ELSE Append(od, [k |-> key, v |-> val])

\* del od[key] / od.pop(key)
Del(od, key) ==
    LET n == IndexOf(od, key)
    IN  SubSeq(od, 1, n - 1) \o SubSeq(od, n + 1, Len(od))

\* ------------------------------------------------------------------------
\* Values and columns
\* ------------------------------------------------------------------------

\* a raw string as read from the file
Raw(cell) == [t |-> "str", s |-> cell]

\* Python's None
NoneValue == [t |-> "none", s |-> <<>>]

\* a column that is a Python list of values
ListCol(vals) == [list |-> TRUE, v |-> vals]

\* a column that was collapsed to one bare value by collimate_tables
ScalarCol(val) == [list |-> FALSE, v |-> <<val>>]

COMMENTS == <<"c", "o", "m", "m", "e", "n", "t", "s">>

\* the line of a diagnostic that was reported without one (line=None)
NoLine == 0 - 1

\* ------------------------------------------------------------------------
\* Diagnostics
\* ------------------------------------------------------------------------

\* ERRORS[code][0] == 'Error': the severity column of errors-backfilling.csv
Severe(code) ==
    code \in {102, 112, 113, 114, 201, 203, 204, 206, 208, 210, 213, 214,
              215, 216, 220, 301, 302, 303, 304, 305, 335}

\* ExtendedCSV._add_to_report: the document with the diagnostic appended
add_to_report(d, code, line) ==
    IF Severe(code)
    THEN [d EXCEPT !.errors = Append(@, [code |-> code, line |-> line]),
                   !.reports = Append(@, [code |-> code, line |-> line])]
    ELSE [d EXCEPT !.warnings = Append(@, [code |-> code, line |-> line]),
                   !.reports = Append(@, [code |-> code, line |-> line])]

\* ExtendedCSV.__init__, lines 208-220: the fields of a fresh instance
EmptyDoc ==
    [extcsv |-> <<>>, table_count |-> <<>>, line_num |-> <<>>,
     file_comments |-> <<>>, warnings |-> <<>>, errors |-> <<>>,
     noncore_table_schema |-> <<>>, observations_table |-> <<>>,
     schema_has_data_table |-> FALSE, reports |-> <<>>]

\* ExtendedCSV.table_count
table_count_of(d, table_type) ==
    IF Has(d.table_count, table_type) THEN Get(d.table_count, table_type) ELSE 0

\* the name init_table gives to the next table called table_name
init_table_name(d, table_name) ==
    IF ~Has(d.table_count, table_name) THEN table_name
    ELSE table_name \o <<"_">> \o IntToStr(Get(d.table_count, table_name) + 1)

RECURSIVE InitFields(_, _, _)
InitFields(body, fields, i) ==
    IF i > Len(fields) THEN body
    ELSE InitFields(Put(body, Strip(fields[i]), ListCol(<<>>)), fields, i + 1)

\* ExtendedCSV.init_table
init_table(d, table_name, fields, line_num) ==
    LET name == init_table_name(d, table_name)
        count == IF ~Has(d.table_count, table_name) THEN 1
                 ELSE Get(d.table_count, table_name) + 1
        body == InitFields(<<[k |-> COMMENTS, v |-> ListCol(<<>>)]>>, fields, 1)
    IN  [d EXCEPT !.table_count = Put(@, table_name, count),
                  !.extcsv = Put(@, name, body),
                  !.line_num = Put(@, name, line_num)]

\* str.strip() of a raw value, as add_values_to_table stores it
StripValue(cell) == Raw(Strip(cell))

RECURSIVE AppendRow(_, _, _, _)
\* for field, value in zip(fields, values): body[field].append(value.strip())
AppendRow(body, fields, values, i) ==
    IF i > Len(fields) \/ i > Len(values) THEN body
    ELSE LET col == Get(body, fields[i])
         IN  AppendRow(Put(body, fields[i],
                           [col EXCEPT !.v = Append(@, StripValue(values[i]))]),
                       fields, values, i + 1)

\* values.extend([''] * fillins); values = values[:len(fields)]
FillRow(values, nfields) ==
    LET padded == values \o [i \in 1..(nfields - Len(values)) |-> <<>>]
    IN  SubSeq(padded, 1, nfields)

\* ExtendedCSV.add_values_to_table, horizontal insert without <fields>,
\* as the parser calls it: [d, ok] with ok = the returned success flag
add_values_to_table(d, table_name, values, line_num) ==
    LET body == Get(d.extcsv, table_name)
        fields == Tail_(Keys(body), 2)
        fillins == Len(fields) - Len(values)
        d1 == IF fillins < 0 THEN add_to_report(d, 212, line_num) ELSE d
        ok == ~(fillins < 0 /\ Severe(212))
        row == FillRow(values, Len(fields))
    IN  [d |-> [d1 EXCEPT !.extcsv =
                    Put(@, table_name, AppendRow(body, fields, row, 1))],
         ok |-> ok]

\* ------------------------------------------------------------------------
\* ExtendedCSV.__init__: the parser
\* ------------------------------------------------------------------------

\* the delimiters the parser corrects to commas, in the order it tries them
BadSeps == << <<":", ":">>, <<";">>, <<"$">>, <<"%">>, <<"|">>, <<"\\">> >>

\* separators = [bad_sep for bad_sep in ... if not non_content_line(row)
\*               and bad_sep in row[0]]
RowSeparators(row) ==
    SelectSeq(BadSeps, LAMBDA sep : ~non_content_line(row) /\ Contains(row[1], sep))

\* the state of the parsing loop: the document, the current table
\* (parent_table, None when has_parent is false), the success flag and the
\* exception that escaped the loop, if any
ParseState(d) ==
    [d |-> d, has_parent |-> FALSE, parent_table |-> <<>>, success |-> TRUE,
     crash |-> "none"]

RECURSIVE FixSeparators(_, _, _, _, _)
\* for separator in separators: row = next(csv.reader(StringIO(
\*     row[0].replace(separator, ',')))); report 104
\* An empty replaced string makes next() raise StopIteration.
FixSeparators(st, row, seps, i, line_num) ==
    IF i > Len(seps) \/ st.crash # "none" THEN [st |-> st, row |-> row]
    ELSE LET comma_separated == Replace(row[1], seps[i], <<",">>)
             d1 == add_to_report(st.d, 104, line_num)
         IN  IF Len(comma_separated) = 0
             THEN [st |-> [st EXCEPT !.crash = "StopIteration"], row |-> row]
             ELSE FixSeparators([st EXCEPT !.d = d1,
                                           !.success = @ /\ ~Severe(104)],
                                Split(comma_separated, ","), seps, i + 1,
                                line_num)

RECURSIVE SkipNonContent(_, _, _)
\* while non_content_line(fields): report 103; ln, fields = next(lines)
\* from line ln on: the document with the 103 reports, the index of the
\* field line (Len(text) + 1 when the text ends first, StopIteration)
SkipNonContent(st, text, ln) ==
    IF ln > Len(text) THEN [st |-> st, ln |-> ln]
    ELSE IF non_content_line(text[ln])
         THEN SkipNonContent([st EXCEPT !.d = add_to_report(@, 103, ln),
                                        !.success = @ /\ ~Severe(103)],
                             text, ln + 1)
         ELSE [st |-> st, ln |-> ln]

\* parent_table = ''.join(row).lstrip('#').strip()
HeaderName(row) == Strip(LStrip(row[1], {"#"}))

RECURSIVE ParseLines(_, _, _)
\* the loop `for line_num, row in lines` of ExtendedCSV.__init__ from line i
ParseLines(st, text, i) ==
    IF i > Len(text) \/ st.crash # "none" THEN st
    ELSE
      LET fixed == FixSeparators(st, text[i], RowSeparators(text[i]), 1, i)
          st1 == fixed.st
          row == fixed.row
      IN
      IF st1.crash # "none" THEN st1
      ELSE IF Len(row) = 1 /\ StartsWith(row[1], <<"#">>)
      THEN \* table name
        LET name == HeaderName(row)
            skipped == SkipNonContent(st1, text, i + 1)
            st2 == skipped.st
            ln == skipped.ln
        IN  IF ln > Len(text)
            THEN \* StopIteration: no field line before the end of the text
                 [st2 EXCEPT !.d = add_to_report(@, 206, i),
                             !.success = @ /\ ~Severe(206),
                             !.has_parent = TRUE,
                             !.parent_table = name]
            ELSE ParseLines(
                   [st2 EXCEPT !.d = init_table(@, name, text[ln], i),
                               !.has_parent = TRUE,
                               !.parent_table = init_table_name(st2.d, name)],
                   text, ln + 1)
      ELSE IF Len(row) > 0 /\ StartsWith(row[1], <<"*">>)
      THEN \* comment
        ParseLines([st1 EXCEPT !.d.file_comments = Append(@, row)], text, i + 1)
      ELSE IF non_content_line(row)
      THEN \* blank line
        ParseLines(st1, text, i + 1)
      ELSE IF st1.has_parent
      THEN LET r == add_values_to_table(st1.d, st1.parent_table, row, i)
           IN  ParseLines([st1 EXCEPT !.d = r.d, !.success = @ /\ r.ok],
                          text, i + 1)
      ELSE ParseLines([st1 EXCEPT !.d = add_to_report(@, 211, i),
                                  !.success = @ /\ ~Severe(211)],
                      text, i + 1)

\* ExtendedCSV(content): the final state of the parsing loop
Parse(text) == ParseLines(ParseState(EmptyDoc), text, 1)

\* ------------------------------------------------------------------------
\* Names of tables and fields (the strings of the code and of the table
\* definitions), written as character sequences
\* ------------------------------------------------------------------------

s_CONTENT == <<"C", "O", "N", "T", "E", "N", "T">>
s_TIMESTAMP == <<"T", "I", "M", "E", "S", "T", "A", "M", "P">>
s_DAILY == <<"D", "A", "I", "L", "Y">>
s_MONTHLY == <<"M", "O", "N", "T", "H", "L", "Y">>
s_SAOZ_DATA_V2 == <<"S", "A", "O", "Z", "_", "D", "A", "T", "A", "_", "V", "2">>
s_SAOZ_DATA_V == <<"S", "A", "O", "Z", "_", "D", "A", "T", "A", "_", "V">>
s_Category == <<"C", "a", "t", "e", "g", "o", "r", "y">>
s_Level == <<"L", "e", "v", "e", "l">>
s_Form == <<"F", "o", "r", "m">>
s_Date == <<"D", "a", "t", "e">>
s_Time == <<"T", "i", "m", "e">>
s_WLCode == <<"W", "L", "C", "o", "d", "e">>
s_ObsCode == <<"O", "b", "s", "C", "o", "d", "e">>
s_Npts == <<"N", "p", "t", "s">>
s_Flag == <<"F", "l", "a", "g">>

\* ------------------------------------------------------------------------
\* Integer ranges (util.parse_integer_range)
\* ------------------------------------------------------------------------

DigitVal(c) ==
    CASE c = "0" -> 0 [] c = "1" -> 1 [] c = "2" -> 2 [] c = "3" -> 3
      [] c = "4" -> 4 [] c = "5" -> 5 [] c = "6" -> 6 [] c = "7" -> 7
      [] c = "8" -> 8 [] c = "9" -> 9

\* int(s) for a string of decimal digits
RECURSIVE StrToInt(_)
StrToInt(s) ==
    IF Len(s) = 0 THEN 0
    ELSE 10 * StrToInt(SubSeq(s, 1, Len(s) - 1)) + DigitVal(s[Len(s)])

\* util.parse_integer_range: 'n', 'n+' and 'm-n'; inf marks float('inf')
parse_integer_range(bounds_string) ==
    IF Len(bounds_string) > 0 /\ bounds_string[Len(bounds_string)] = "+"
    THEN [lower |-> StrToInt(SubSeq(bounds_string, 1, Len(bounds_string) - 1)),
          upper |-> 0, inf |-> TRUE]
    ELSE IF Cardinality({i \in 1..Len(bounds_string) : bounds_string[i] = "-"}) = 1
    THEN LET parts == Split(bounds_string, "-")
         IN  [lower |-> StrToInt(parts[1]), upper |-> StrToInt(parts[2]),
              inf |-> FALSE]
    ELSE [lower |-> StrToInt(bounds_string), upper |-> StrToInt(bounds_string),
          inf |-> FALSE]

\* count > upper, where upper may be float('inf')
AboveRange(n, range) == ~range.inf /\ n > range.upper

\* ------------------------------------------------------------------------
\* Table definitions (DOMAINS, loaded from tables-backfilling.yml)
\* ------------------------------------------------------------------------

\* one table definition; has_required tells whether the definition has a
\* 'required_fields' key at all
TableDef(rows, occurrences, required, optional, has_required) ==
    [rows |-> rows, occurrences |-> occurrences,
     required_fields |-> required, optional_fields |-> optional,
     has_required |-> has_required]

\* DOMAINS['Common']: the tables every file must have
Common ==
    << [k |-> s_CONTENT,
        v |-> TableDef(<<"1">>, <<"1">>, <<s_Category, s_Level, s_Form>>,
                       <<>>, TRUE)],
       [k |-> s_TIMESTAMP,
        v |-> TableDef(<<"1">>, <<"1", "+">>, <<s_Date>>, <<s_Time>>, TRUE)] >>

\* DOMAINS['Datasets'][category][level][form] of the one dataset of the
\* model: a required data table, an optional table and an optional table
\* whose type name ends in a digit
DatasetTables ==
    << [k |-> s_DAILY,
        v |-> TableDef(<<"1", "+">>, <<"1">>, <<s_WLCode>>, <<s_ObsCode>>,
                       TRUE)],
       [k |-> s_MONTHLY,
        v |-> TableDef(<<"1">>, <<"0", "-", "1">>, <<>>, <<s_Npts>>, FALSE)],
       [k |-> s_SAOZ_DATA_V2,
        v |-> TableDef(<<"1", "+">>, <<"0", "-", "1">>, <<>>, <<s_Flag>>,
                       FALSE)] >>

\* the keys of DOMAINS['Datasets'] that lead to DatasetTables
DatasetCategory == <<"T", "O">>
DatasetLevel == <<"1", ".", "0">>
DatasetForm == <<"1">>

\* the 'data_table' entry of the dataset
DatasetDataTable == s_DAILY

\* ------------------------------------------------------------------------
\* Value Normalizer: parse_timestamp, parse_datestamp, parse_utcoffset,
\* typecast_value
\* ------------------------------------------------------------------------

Letters ==
    {"a", "b", "c", "d", "e", "f", "g", "h", "i", "j", "k", "l", "m", "n",
     "o", "p", "q", "r", "s", "t", "u", "v", "w", "x", "y", "z",
     "A", "B", "C", "D", "E", "F", "G", "H", "I", "J", "K", "L", "M", "N",
     "O", "P", "Q", "R", "S", "T", "U", "V", "W", "X", "Y", "Z"}

\* the characters the regular expression [\w\d] matches
WordChars == Letters \cup Digits \cup {"_"}

\* datetime.now().year
PresentYear == 2026

\* s without a leading sign
Unsigned(s) == IF Len(s) > 0 /\ s[1] \in {"+", "-"} THEN Tail_(s, 2) ELSE s

\* int(s) succeeds: an optional sign, then decimal digits, optionally grouped
\* by single underscores
IsPyInt(s) ==
    LET u == Unsigned(s)
    IN  /\ Len(u) > 0
        /\ u[1] \in Digits
        /\ u[Len(u)] \in Digits
        /\ \A i \in 1..Len(u) : u[i] \in Digits \cup {"_"}
        /\ \A i \in 1..(Len(u) - 1) : ~(u[i] = "_" /\ u[i + 1] = "_")

\* int(s) for such a string
PyInt(s) ==
    LET n == StrToInt(SelectSeq(s, LAMBDA c : c \in Digits))
    IN  IF Len(s) > 0 /\ s[1] = "-" THEN 0 - n ELSE n

\* '%02d' % n
TwoDigits(n) == IF n < 10 THEN <<"0">> \o IntToStr(n) ELSE IntToStr(n)

\* str(time(h, m, s))
TimeStr(h, m, sec) ==
    TwoDigits(h) \o <<":">> \o TwoDigits(m) \o <<":">> \o TwoDigits(sec)

\* s with every character of chars replaced by rep
ReplaceChars(s, chars, rep) ==
    [i \in 1..Len(s) |-> IF s[i] \in chars THEN rep ELSE s[i]]

RECURSIVE ReportTimes(_, _, _, _)
\* n reports of one code at one line
ReportTimes(d, code, line, n) ==
    IF n <= 0 THEN d ELSE ReportTimes(add_to_report(d, code, line), code, line, n - 1)

CarriedInto_NoCarry(lower, upper) == upper

\* the larger unit after `while lower >= 60: lower -= 60; upper += 1`
CarriedInto(lower, upper) == upper + (lower \div 60)

\* ExtendedCSV.parse_timestamp: [d, ok, v]; ok is false when it raises
parse_timestamp(d, timestamp0, line_num) ==
    LET n0 == Len(timestamp0)
        last2 == IF n0 >= 2 THEN SubSeq(timestamp0, n0 - 1, n0) ELSE timestamp0
        has_noon == last2 \in {<<"a", "m">>, <<"p", "m">>}
        noon_indicator == IF has_noon THEN last2 ELSE <<>>
        timestamp1 == IF has_noon THEN Strip(SubSeq(timestamp0, 1, n0 - 2))
                      ELSE timestamp0
        bad_seps == {c \in Range(timestamp1) : c \notin WordChars} \ {":"}
        d1 == ReportTimes(d, 109, line_num, Cardinality(bad_seps))
        ok1 == ~(bad_seps # {} /\ Severe(109))
        timestamp == ReplaceChars(timestamp1, bad_seps, ":")
        tokens == Split(timestamp, ":")
        hour == IF Len(tokens[1]) > 0 THEN tokens[1] ELSE <<"0", "0">>
        minute == IF Len(tokens) > 1 /\ Len(tokens[2]) > 0 THEN tokens[2]
                  ELSE <<"0", "0">>
        second == IF Len(tokens) > 2 /\ Len(tokens[3]) > 0 THEN tokens[3]
                  ELSE <<"0", "0">>
        nbad == Cardinality({i \in 1..3 :
                    ~IsPyInt(<<hour, minute, second>>[i])})
        d2 == ReportTimes(d1, 301, line_num, nbad)
        ok2 == ok1 /\ ~(nbad > 0 /\ Severe(301))
    IN  IF ~ok2 \/ nbad > 0
        THEN \* raise ValueError; with a component that is None, time() raises
             [d |-> d2, ok |-> FALSE, v |-> NoneValue]
        ELSE
        LET h0 == PyInt(hour)
            m0 == PyInt(minute)
            s0 == PyInt(second)
            adjust_am == noon_indicator = <<"a", "m">> /\ h0 = 12
            adjust_pm == noon_indicator = <<"p", "m">> /\ h0 # 12
            d3 == IF adjust_am \/ adjust_pm
                  THEN add_to_report(d2, 110, line_num) ELSE d2
            ok3 == ok2 /\ ~((adjust_am \/ adjust_pm) /\ Severe(110))
            h1 == IF adjust_am THEN 0 ELSE IF adjust_pm THEN h0 + 12 ELSE h0
            d4 == IF s0 >= 60 THEN add_to_report(d3, 340, line_num) ELSE d3
            s2 == s0 % 60
            m1 == CarriedInto(s0, m0)
            d5 == IF m1 >= 60 THEN add_to_report(d4, 340, line_num) ELSE d4
            m2 == m1 % 60
            h2 == CarriedInto(m1, h1)
            d6 == IF h2 >= 24 THEN add_to_report(d5, 340, line_num) ELSE d5
            ok6 == ok3 /\ ~((s0 >= 60 \/ m1 >= 60 \/ h2 >= 24) /\ Severe(340))
        IN  IF ~ok6 \/ h2 >= 24
            THEN \* raise ValueError, from the check or from time() itself
                 [d |-> d6, ok |-> FALSE, v |-> NoneValue]
            ELSE [d |-> d6, ok |-> TRUE,
                  v |-> [t |-> "time", s |-> TimeStr(h2, m2, s2)]]

IsLeap(y) == (y % 4 = 0 /\ y % 100 # 0) \/ y % 400 = 0

DaysInMonth(y, m) ==
    IF m = 2 THEN (IF IsLeap(y) THEN 29 ELSE 28)
    ELSE IF m \in {4, 6, 9, 11} THEN 30 ELSE 31

AllDigits(s) == \A i \in 1..Len(s) : s[i] \in Digits

\* datetime.strptime(datestamp, '%Y-%m-%d') succeeds
StrptimeOk(tokens) ==
    /\ Len(tokens[1]) = 4 /\ AllDigits(tokens[1])
    /\ Len(tokens[2]) \in {1, 2} /\ AllDigits(tokens[2])
    /\ Len(tokens[3]) \in {1, 2} /\ AllDigits(tokens[3])
    /\ StrToInt(tokens[1]) >= 1
    /\ StrToInt(tokens[2]) \in 1..12
    /\ StrToInt(tokens[3]) \in 1..DaysInMonth(StrToInt(tokens[1]),
                                               StrToInt(tokens[2]))

\* str(date(y, m, d))
DateStr(y, m, day) ==
    (IF y < 1000 THEN <<"0">> ELSE <<>>) \o (IF y < 100 THEN <<"0">> ELSE <<>>)
      \o (IF y < 10 THEN <<"0">> ELSE <<>>) \o IntToStr(y)
      \o <<"-">> \o TwoDigits(m) \o <<"-">> \o TwoDigits(day)

DateRaises_DigitsOnly(success, tokens) ==
    \E i \in 1..Len(tokens) : ~AllDigits(tokens[i])

\* the end of parse_datestamp raises ValueError: success is false, or
\* strptime rejects the text
DateRaises(success, tokens) == ~success \/ ~StrptimeOk(tokens)

\* ExtendedCSV.parse_datestamp: [d, ok, v]; ok is false when it raises
parse_datestamp(d, datestamp0, line_num) ==
    LET bad_seps == {c \in Range(datestamp0) : c \notin WordChars} \ {"-"}
        d1 == ReportTimes(d, 111, line_num, Cardinality(bad_seps))
        ok1 == ~(bad_seps # {} /\ Severe(111))
        datestamp == ReplaceChars(datestamp0, bad_seps, "-")
        tokens == Split(datestamp, "-")
        d2 == IF Len(tokens) = 1 THEN add_to_report(d1, 112, line_num) ELSE d1
        d3 == IF Len(tokens) < 3 THEN add_to_report(d2, 113, line_num)
              ELSE IF Len(tokens) > 3 THEN add_to_report(d2, 114, line_num)
              ELSE d2
        ok3 == /\ ok1
               /\ ~(Len(tokens) = 1 /\ Severe(112))
               /\ ~(Len(tokens) < 3 /\ Severe(113))
               /\ ~(Len(tokens) > 3 /\ Severe(114))
    IN  IF ~ok3 \/ Len(tokens) # 3
        THEN \* raise ValueError (or IndexError on a missing token)
             [d |-> d3, ok |-> FALSE, v |-> NoneValue]
        ELSE
        LET nbad == Cardinality({i \in 1..3 : ~IsPyInt(tokens[i])})
            d4 == ReportTimes(d3, 302, line_num, nbad)
            year_bad == IsPyInt(tokens[1])
                        /\ PyInt(tokens[1]) \notin 1924..PresentYear
            month_bad == IsPyInt(tokens[2]) /\ PyInt(tokens[2]) \notin 1..12
            day_bad == IsPyInt(tokens[3]) /\ PyInt(tokens[3]) \notin 1..31
            d5 == IF year_bad THEN add_to_report(d4, 303, line_num) ELSE d4
            d6 == IF month_bad THEN add_to_report(d5, 303, line_num) ELSE d5
            d7 == IF day_bad THEN add_to_report(d6, 304, line_num) ELSE d6
            ok7 == /\ ok3
                   /\ ~(nbad > 0 /\ Severe(302))
                   /\ ~((year_bad \/ month_bad) /\ Severe(303))
                   /\ ~(day_bad /\ Severe(304))
        IN  IF DateRaises(ok7, tokens)
            THEN \* raise ValueError, from the checks or from strptime
                 [d |-> d7, ok |-> FALSE, v |-> NoneValue]
            ELSE [d |-> d7, ok |-> TRUE,
                  v |-> [t |-> "date",
                         s |-> DateStr(StrToInt(tokens[1]), StrToInt(tokens[2]),
                                       StrToInt(tokens[3]))]]

\* the prefixes the pattern (\+|-|\+-)? can match
OffsetSigns == {<<>>, <<"+">>, <<"-">>, <<"+", "-">>}

\* ([\d]{1,2})(:([\d]{0,2}))?(:([\d]{0,2}))? matches all of rest
OffsetPlaces(rest) ==
    LET parts == Split(rest, ":")
    IN  /\ Len(parts) \in 1..3
        /\ Len(parts[1]) \in 1..2
        /\ \A i \in 1..Len(parts) : Len(parts[i]) <= 2 /\ AllDigits(parts[i])

\* [0]+:?[0]*:?[0]* matches all of rest
OffsetZeros(rest) ==
    /\ Len(rest) > 0
    /\ rest[1] = "0"
    /\ \A i \in 1..Len(rest) : rest[i] \in {"0", ":"}
    /\ Cardinality({i \in 1..Len(rest) : rest[i] = ":"}) <= 2

RJust2_NoPad(s) == s

\* s.rjust(2, '0')
RJust2(s) == IF Len(s) < 2 THEN <<"0">> \o s ELSE s

\* ExtendedCSV.parse_utcoffset: [d, ok, v]; ok is false when it raises
parse_utcoffset(d, utcoffset0, line_num) ==
    LET bad_seps == {c \in Range(utcoffset0) :
                        c \notin WordChars \cup {"-", "+"}} \ {":"}
        d1 == ReportTimes(d, 115, line_num, Cardinality(bad_seps))
        ok1 == ~(bad_seps # {} /\ Severe(115))
        utcoffset == ReplaceChars(utcoffset0, bad_seps, ":")
        Fits(sg, P(_)) == /\ StartsWith(utcoffset, sg)
                          /\ P(Tail_(utcoffset, Len(sg) + 1))
        failed == [d |-> add_to_report(d1, 305, line_num), ok |-> FALSE,
                   v |-> NoneValue]
    IN  IF \E sg \in OffsetSigns : Fits(sg, OffsetPlaces)
        THEN
          LET sign0 == CHOOSE sg \in OffsetSigns : Fits(sg, OffsetPlaces)
              parts == Split(Tail_(utcoffset, Len(sign0) + 1), ":")
              hour0 == parts[1]
              minute0 == IF Len(parts) > 1 THEN parts[2] ELSE <<>>
              second0 == IF Len(parts) > 2 THEN parts[3] ELSE <<>>
              n116 == Cardinality({i \in 1..3 :
                          Len(<<hour0, minute0, second0>>[i]) = 1})
              n117 == Cardinality({i \in 2..3 :
                          Len(<<hour0, minute0, second0>>[i]) = 0})
              hour == RJust2(hour0)
              minute == IF Len(minute0) = 0 THEN <<"0", "0">> ELSE RJust2(minute0)
              second == IF Len(second0) = 0 THEN <<"0", "0">> ELSE RJust2(second0)
              zero == hour = <<"0", "0">> /\ minute = <<"0", "0">>
                      /\ second = <<"0", "0">>
              code_sign == IF zero THEN (IF sign0 # <<"+">> THEN 119 ELSE 0)
                           ELSE IF Len(sign0) = 0 THEN 118
                           ELSE IF sign0 = <<"+", "-">> THEN 119 ELSE 0
              sign == IF zero THEN <<"+">>
                      ELSE IF Len(sign0) = 0 THEN <<"+">>
                      ELSE IF sign0 = <<"+", "-">> THEN <<"-">> ELSE sign0
              \* the reports in the order of the code: hour, minute, second,
              \* then the sign
              d2 == IF Len(hour0) = 1 THEN add_to_report(d1, 116, line_num)
                    ELSE d1
              d3 == IF Len(minute0) = 0 THEN add_to_report(d2, 117, line_num)
                    ELSE IF Len(minute0) = 1
                    THEN add_to_report(d2, 116, line_num) ELSE d2
              d4 == IF Len(second0) = 0 THEN add_to_report(d3, 117, line_num)
                    ELSE IF Len(second0) = 1
                    THEN add_to_report(d3, 116, line_num) ELSE d3
              d5 == IF code_sign # 0 THEN add_to_report(d4, code_sign, line_num)
                    ELSE d4
              ok5 == /\ ok1
                     /\ ~(n116 > 0 /\ Severe(116))
                     /\ ~(n117 > 0 /\ Severe(117))
                     /\ ~(code_sign # 0 /\ Severe(code_sign))
              in_range == /\ StrToInt(hour) <= 23
                          /\ StrToInt(minute) <= 59
                          /\ StrToInt(second) <= 59
          IN  IF ~ok5 THEN [d |-> d5, ok |-> FALSE, v |-> NoneValue]
              ELSE IF ~in_range
              THEN [d |-> add_to_report(d5, 305, line_num), ok |-> FALSE,
                    v |-> NoneValue]
              ELSE [d |-> d5, ok |-> TRUE,
                    v |-> [t |-> "str",
                           s |-> sign \o hour \o <<":">> \o minute
                                   \o <<":">> \o second]]
        ELSE IF \E sg \in OffsetSigns : Fits(sg, OffsetZeros)
        THEN IF Severe(120)
             THEN [d |-> add_to_report(d1, 120, line_num), ok |-> FALSE,
                   v |-> NoneValue]
             ELSE [d |-> add_to_report(d1, 120, line_num), ok |-> TRUE,
                   v |-> [t |-> "str",
                          s |-> <<"+", "0", "0", ":", "0", "0", ":", "0", "0">>]]
        ELSE failed

\* float(s) succeeds, for plain decimal literals: an optional sign, then
\* digits with one point
IsPyFloat(s) ==
    LET u == Unsigned(s)
    IN  /\ Cardinality({i \in 1..Len(u) : u[i] = "."}) = 1
        /\ \A i \in 1..Len(u) : u[i] \in Digits \cup {"."}
        /\ Len(u) > 1

\* str(float(s)) for such a literal: no leading zeros before the point, no
\* trailing zeros after it, at least one digit on each side
FloatStr(s) ==
    LET parts == Split(Unsigned(s), ".")
        int_part == LStrip(parts[1], {"0"})
        frac_part == RStrip(parts[2], {"0"})
    IN  (IF s[1] = "-" THEN <<"-">> ELSE <<>>)
          \o (IF Len(int_part) = 0 THEN <<"0">> ELSE int_part) \o <<".">>
          \o (IF Len(frac_part) = 0 THEN <<"0">> ELSE frac_part)

\* str(int(s)) for a string int() accepts: no leading zeros, no '+'
IntStr(s) ==
    LET digits == LStrip(SelectSeq(s, LAMBDA c : c \in Digits), {"0"})
    IN  IF Len(digits) = 0 THEN <<"0">>
        ELSE (IF s[1] = "-" THEN <<"-">> ELSE <<>>) \o digits

KeptAsCode_Never(s) == FALSE

\* len(value) > 1 and value.startswith('0')
KeptAsCode(s) == Len(s) > 1 /\ s[1] = "0"

\* ExtendedCSV.typecast_value: [d, v]
typecast_value(d, field, value, line_num) ==
    IF value = Raw(<<>>) THEN [d |-> d, v |-> NoneValue]
    ELSE
    LET lowered_field == Lower(field)
        special == lowered_field \in {Lower(s_Time), Lower(s_Date),
                                      <<"u", "t", "c", "o", "f", "f", "s", "e", "t">>}
    IN  IF special
        THEN IF value.t # "str"
             THEN \* the parser raises TypeError on a value that is no string
                  [d |-> add_to_report(d, 335, line_num), v |-> value]
             ELSE With(IF lowered_field = Lower(s_Time)
                       THEN parse_timestamp(d, value.s, line_num)
                       ELSE IF lowered_field = Lower(s_Date)
                       THEN parse_datestamp(d, value.s, line_num)
                       ELSE parse_utcoffset(d, value.s, line_num),
                       LAMBDA r :
                         IF r.ok THEN [d |-> r.d, v |-> r.v]
                         ELSE [d |-> add_to_report(r.d, 335, line_num),
                               v |-> value])
        ELSE IF value.t # "str"
        THEN \* `'.' in value` raises TypeError, caught: the value is returned
             [d |-> d, v |-> value]
        ELSE IF Contains(value.s, <<".">>)
        THEN [d |-> d,
              v |-> IF IsPyFloat(value.s)
                    THEN [t |-> "float", s |-> FloatStr(value.s)] ELSE value]
        ELSE IF KeptAsCode(value.s)
        THEN [d |-> d, v |-> value]
        ELSE [d |-> d,
              v |-> IF IsPyInt(value.s)
                    THEN [t |-> "int", s |-> IntStr(value.s)] ELSE value]

\* ------------------------------------------------------------------------
\* Structural Validator
\* ------------------------------------------------------------------------

\* ExtendedCSV.line_num: the header line of a table, None when it has none
line_num_of(d, table) ==
    IF Has(d.line_num, table) THEN Get(d.line_num, table) ELSE NoLine

\* table.rstrip('0123456789_'): the type the validators derive from a name
TableType(table_name) == RStrip(table_name, Digits \cup {"_"})

\* one report inside a check: the document and the running success flag
Report(acc, code, line) ==
    [d |-> add_to_report(acc.d, code, line), ok |-> acc.ok /\ ~Severe(code)]

RECURSIVE OccurrencesFrom(_, _, _)
OccurrencesFrom(acc, schema, i) ==
    IF i > Len(schema) THEN acc
    ELSE
      LET table_type == schema[i].k
          count == table_count_of(acc.d, table_type)
          range == parse_integer_range(schema[i].v.occurrences)
          acc1 == IF count < range.lower
                  THEN Report(acc, 213,
                         line_num_of(acc.d, table_type \o <<"_">> \o IntToStr(count)))
                  ELSE acc
          acc2 == IF AboveRange(count, range)
                  THEN Report(acc1, 214,
                         line_num_of(acc1.d, table_type \o <<"_">>
                                               \o IntToStr(range.upper + 1)))
                  ELSE acc1
      IN  OccurrencesFrom(acc2, schema, i + 1)

\* ExtendedCSV.check_table_occurrences: [d, ok]
check_table_occurrences(d, schema) ==
    OccurrencesFrom([d |-> d, ok |-> TRUE], schema, 1)

\* ExtendedCSV.check_table_height: [d, ok]
check_table_height(d, table, definition, num_rows) ==
    LET range == parse_integer_range(definition.rows)
        is_required == parse_integer_range(definition.occurrences).lower # 0
        headerline == line_num_of(d, table)
        acc == [d |-> d, ok |-> TRUE]
    IN  IF num_rows = 0 /\ range.lower # 0
        THEN IF is_required THEN Report(acc, 208, headerline)
             ELSE Report(acc, 209, headerline)
        ELSE IF num_rows < range.lower THEN Report(acc, 215, headerline)
        ELSE IF AboveRange(num_rows, range) THEN Report(acc, 216, headerline)
        ELSE acc

\* {key.lower(): key for key in keys}.get(name.lower(), None): the last key
\* that equals name up to letter case, <<>> when there is none
CaseMatch(keys, name) ==
    LET hits == {i \in 1..Len(keys) : Lower(keys[i]) = Lower(name)}
    IN  IF hits = {} THEN <<>>
        ELSE keys[CHOOSE i \in hits : \A j \in hits : j <= i]

\* len(column)
ColumnLen(column) ==
    IF column.list THEN Len(column.v) ELSE Len(column.v[1].s)

\* [''] * num_rows
NullColumn(num_rows) == ListCol([i \in 1..num_rows |-> Raw(<<>>)])

\* num_rows of check_field_validity: the length of the first column that
\* iterating the table yields
FieldValidityRows(body) == ColumnLen(body[1].v)

RECURSIVE MissingFrom(_, _, _, _, _, _, _)
\* the loop over missing_fields: rename a match, or report and null-fill
MissingFrom(acc, table, missing_fields, provided, null_value, fieldline, i) ==
    IF i > Len(missing_fields) THEN acc
    ELSE
      LET missing == missing_fields[i]
          match_insensitive == CaseMatch(provided, missing)
          body == Get(acc.d.extcsv, table)
      IN  IF Len(match_insensitive) > 0
          THEN LET acc1 == Report(acc, 105, fieldline)
                   body1 == Put(Del(body, match_insensitive), missing,
                                Get(body, match_insensitive))
               IN  MissingFrom([acc1 EXCEPT !.d.extcsv = Put(@, table, body1)],
                               table, missing_fields, provided, null_value,
                               fieldline, i + 1)
          ELSE LET acc1 == Report(acc, 203, fieldline)
                   body1 == Put(body, missing, null_value)
               IN  MissingFrom([acc1 EXCEPT !.d.extcsv = Put(@, table, body1)],
                               table, missing_fields, provided, null_value,
                               fieldline, i + 1)

RECURSIVE ExtraFrom(_, _, _, _, _, _)
\* the loop over extra_fields: canonical case for an optional field,
\* removal of an unrecognized one
ExtraFrom(acc, table, extra_fields, optional, fieldline, i) ==
    IF i > Len(extra_fields) THEN acc
    ELSE
      LET extra == extra_fields[i]
          match_insensitive == CaseMatch(optional, extra)
          body == Get(acc.d.extcsv, table)
      IN  IF Len(match_insensitive) > 0
          THEN IF extra # match_insensitive
               THEN LET acc1 == Report(acc, 105, fieldline)
                        body1 == Put(Del(body, extra), match_insensitive,
                                     Get(body, extra))
                    IN  ExtraFrom([acc1 EXCEPT !.d.extcsv = Put(@, table, body1)],
                                  table, extra_fields, optional, fieldline, i + 1)
               ELSE ExtraFrom(acc, table, extra_fields, optional, fieldline, i + 1)
          ELSE IF extra # COMMENTS
          THEN LET acc1 == Report(acc, 250, fieldline)
               IN  ExtraFrom([acc1 EXCEPT !.d.extcsv =
                                 Put(@, table, Del(body, extra))],
                             table, extra_fields, optional, fieldline, i + 1)
          ELSE ExtraFrom(acc, table, extra_fields, optional, fieldline, i + 1)

\* the offset of the first row, whichever row holds the empty value
FirstEmpty_Zero(column) == 0

\* column.index(''), 0-based
FirstEmpty(column) ==
    (CHOOSE i \in 1..Len(column.v) :
        /\ column.v[i] = Raw(<<>>)
        /\ \A j \in 1..(i - 1) : column.v[j] # Raw(<<>>)) - 1

RECURSIVE EmptyValuesFrom(_, _, _, _, _)
\* the loop over required: one report for a column that holds an empty value
EmptyValuesFrom(acc, table, required, valueline, i) ==
    IF i > Len(required) THEN acc
    ELSE
      LET column == Get(Get(acc.d.extcsv, table), required[i])
      IN  IF column.list /\ \E j \in 1..Len(column.v) : column.v[j] = Raw(<<>>)
          THEN EmptyValuesFrom(Report(acc, 204, valueline + FirstEmpty(column)),
                               table, required, valueline, i + 1)
          ELSE EmptyValuesFrom(acc, table, required, valueline, i + 1)

\* ExtendedCSV.check_field_validity: [d, ok]
check_field_validity(d, table, definition) ==
    LET required == definition.required_fields
        optional == definition.optional_fields
        body == Get(d.extcsv, table)
        provided == Keys(body)
        missing_fields == SelectSeq(required,
                              LAMBDA field : field \notin Range(provided))
        extra_fields == SelectSeq(provided,
                            LAMBDA field : \A i \in 1..Len(required) :
                                             Lower(required[i]) # Lower(field))
        fieldline == line_num_of(d, table) + 1
        valueline == fieldline + 1
        null_value == NullColumn(FieldValidityRows(body))
        acc1 == MissingFrom([d |-> d, ok |-> TRUE], table, missing_fields,
                            provided, null_value, fieldline, 1)
        acc2 == ExtraFrom(acc1, table, extra_fields, optional, fieldline, 1)
    IN  EmptyValuesFrom(acc2, table, required, valueline, 1)

\* ------------------------------------------------------------------------
\* Collimator
\* ------------------------------------------------------------------------

\* the values that iterating a column yields; a bare string yields its
\* characters
ColumnItems(column) ==
    IF column.list THEN column.v
    ELSE [i \in 1..Len(column.v[1].s) |-> Raw(<<column.v[1].s[i]>>)]

\* iterating the column raises TypeError: a bare value that is no string
NotIterable(column) == ~column.list /\ column.v[1].t # "str"

RECURSIVE ConvertFrom(_, _, _, _, _, _)
\* [typecast_value(table, field, val, line) for line, val in
\*  enumerate(column, table_valueline)]: [d, vals]
ConvertFrom(d, field, items, valueline, i, done) ==
    IF i > Len(items) THEN [d |-> d, vals |-> done]
    ELSE With(typecast_value(d, field, items[i], valueline + i - 1),
              LAMBDA r : ConvertFrom(r.d, field, items, valueline, i + 1,
                                     Append(done, r.v)))

Collimated_AlwaysList(converted, rows) == ListCol(converted)

\* the column collimate_tables stores for the converted values
Collimated(converted, rows) ==
    IF rows = <<"1">>
    THEN ScalarCol(IF Len(converted) = 0 THEN NoneValue ELSE converted[1])
    ELSE ListCol(converted)

RECURSIVE CollimateFields(_, _, _, _, _)
\* the loop over body.items() for one table: [d, crash]
CollimateFields(d, table_name, rows, fields, i) ==
    IF i > Len(fields) THEN [d |-> d, crash |-> "none"]
    ELSE IF fields[i] = COMMENTS
    THEN CollimateFields(d, table_name, rows, fields, i + 1)
    ELSE
      LET body == Get(d.extcsv, table_name)
          column == Get(body, fields[i])
      IN  IF NotIterable(column) THEN [d |-> d, crash |-> "TypeError"]
          ELSE
          With(ConvertFrom(d, fields[i], ColumnItems(column),
                           line_num_of(d, table_name) + 2, 1, <<>>),
               LAMBDA r :
                 CollimateFields(
                   [r.d EXCEPT !.extcsv =
                      Put(@, table_name,
                          Put(Get(@, table_name), fields[i],
                              Collimated(r.vals, rows)))],
                   table_name, rows, fields, i + 1))

RECURSIVE CollimateFrom(_, _, _, _)
CollimateFrom(d, tables, schema, i) ==
    IF i > Len(tables) THEN [d |-> d, crash |-> "none"]
    ELSE
      LET table_name == tables[i]
          table_type == TableType(table_name)
      IN  IF ~Has(d.extcsv, table_name) \/ ~Has(schema, table_type)
          THEN [d |-> d, crash |-> "KeyError"]
          ELSE IF ~Has(d.line_num, table_name)
          THEN [d |-> d, crash |-> "TypeError"]
          ELSE
          With(CollimateFields(d, table_name, Get(schema, table_type).rows,
                               Keys(Get(d.extcsv, table_name)), 1),
               LAMBDA r : IF r.crash # "none" THEN r
                          ELSE CollimateFrom(r.d, tables, schema, i + 1))

\* ExtendedCSV.collimate_tables: [d, crash]
collimate_tables(d, tables, schema) == CollimateFrom(d, tables, schema, 1)

\* ------------------------------------------------------------------------
\* validate_metadata_tables
\* ------------------------------------------------------------------------

RECURSIVE FillOptional(_, _, _, _)
\* for field in optional_fields: if field not in table: [''] * num_rows
FillOptional(body, optional, num_rows, i) ==
    IF i > Len(optional) THEN body
    ELSE FillOptional(IF Has(body, optional[i]) THEN body
                      ELSE Put(body, optional[i], NullColumn(num_rows)),
                      optional, num_rows, i + 1)

RECURSIVE ReportMissingTables(_, _, _)
\* for missing in missing_tables: report 201
ReportMissingTables(acc, missing_tables, i) ==
    IF i > Len(missing_tables) THEN acc
    ELSE ReportMissingTables(Report(acc, 201, NoLine), missing_tables, i + 1)

\* `if not check_field_validity(...) or not check_table_height(...)`: the
\* height is checked only when the fields were valid
CheckTable(d, table, definition, num_rows) ==
    With(check_field_validity(d, table, definition),
         LAMBDA fv : IF ~fv.ok THEN fv
                     ELSE check_table_height(fv.d, table, definition, num_rows))

RECURSIVE MetadataTablesFrom(_, _, _, _)
\* the loop over present_tables of validate_metadata_tables:
\* [d, ok, stop]; stop is "return" for the early return on a collimated
\* table, or the exception that escaped
MetadataTablesFrom(acc, present_tables, schema, i) ==
    IF i > Len(present_tables) THEN [d |-> acc.d, ok |-> acc.ok, stop |-> "none"]
    ELSE
      LET table == present_tables[i]
          definition == Get(schema, TableType(table))
          body == Get(acc.d.extcsv, table)
      IN  IF Len(body) < 2 THEN [d |-> acc.d, ok |-> acc.ok, stop |-> "IndexError"]
          ELSE IF NotIterable(body[2].v)
          THEN [d |-> acc.d, ok |-> acc.ok, stop |-> "return"]
          ELSE IF ~Has(acc.d.line_num, table)
          THEN [d |-> acc.d, ok |-> acc.ok, stop |-> "TypeError"]
          ELSE
          With(CheckTable(acc.d, table, definition, ColumnLen(body[2].v)),
               LAMBDA chk :
                 MetadataTablesFrom(
                   [d |-> [chk.d EXCEPT !.extcsv =
                             Put(@, table,
                                 FillOptional(Get(@, table),
                                              definition.optional_fields,
                                              ColumnLen(body[2].v), 1))],
                    ok |-> acc.ok /\ chk.ok],
                   present_tables, schema, i + 1))

\* a list of missing tables that is always empty
MissingTables_Empty(d, tables) == <<>>

\* [table for table in <tables> if table not in self.extcsv.keys()]
MissingTables(d, tables) ==
    SelectSeq(tables, LAMBDA table : ~Has(d.extcsv, table))

\* [table for table in self.extcsv.keys()
\*  if table.rstrip('0123456789_') in schema]
PresentTables(d, schema) ==
    SelectSeq(Keys(d.extcsv), LAMBDA table : Has(schema, TableType(table)))

\* a test for the absence of tables that never succeeds
NoTablesPresent_Never(present_tables) == Len(present_tables) < 0

\* len(present_tables) == 0
NoTablesPresent(present_tables) == Len(present_tables) = 0

\* ExtendedCSV.validate_metadata_tables: [d, outcome]; outcome is "returned"
\* or the name of the exception raised
validate_metadata_tables(d) ==
    LET schema == Common
        missing_tables == MissingTables(d, Keys(schema))
        present_tables == PresentTables(d, schema)
    IN  IF NoTablesPresent(present_tables) /\ Severe(102)
        THEN [d |-> add_to_report(d, 102, NoLine),
              outcome |-> "NonStandardDataError"]
        ELSE
        With(IF NoTablesPresent(present_tables)
             THEN Report([d |-> d, ok |-> TRUE], 102, NoLine)
             ELSE ReportMissingTables([d |-> d, ok |-> TRUE], missing_tables, 1),
             LAMBDA acc0 :
        IF ~NoTablesPresent(present_tables) /\ ~acc0.ok
        THEN [d |-> acc0.d, outcome |-> "MetadataValidationError"]
        ELSE
        With(check_table_occurrences(acc0.d, schema), LAMBDA occ :
        With(MetadataTablesFrom([d |-> occ.d, ok |-> acc0.ok /\ occ.ok],
                                present_tables, schema, 1),
             LAMBDA res :
        IF res.stop = "return" THEN [d |-> res.d, outcome |-> "returned"]
        ELSE IF res.stop # "none" THEN [d |-> res.d, outcome |-> res.stop]
        ELSE IF res.ok
        THEN With(collimate_tables(res.d, present_tables, schema),
                  LAMBDA c : [d |-> c.d,
                              outcome |-> IF c.crash = "none" THEN "returned"
                                          ELSE c.crash])
        ELSE [d |-> res.d, outcome |-> "MetadataValidationError"])))

\* ------------------------------------------------------------------------
\* _determine_noncore_schema and validate_dataset_tables
\* ------------------------------------------------------------------------

s_None == <<"N", "o", "n", "e">>

\* str(int(x)) for a float x given by its str(): the digits before the point
TruncStr(s) ==
    LET whole == Split(s, ".")[1]
    IN  IF whole = <<"-", "0">> THEN <<"0">> ELSE whole

\* key = str(type_converter(CONTENT[field_name])), with the ValueError
\* fallback: [crash, found, key]; found is false for a value whose str()
\* is no key of the model's tables (the repr of a list)
DatasetKey(field_name, column) ==
    LET val == column.v[1]
        key(k) == [crash |-> "none", found |-> TRUE, key |-> k]
        type_error == [crash |-> "TypeError", found |-> FALSE, key |-> <<>>]
    IN  IF field_name = s_Category
        THEN IF column.list THEN [crash |-> "none", found |-> FALSE, key |-> <<>>]
             ELSE IF val.t = "none" THEN key(s_None) ELSE key(val.s)
        ELSE IF column.list \/ val.t \in {"none", "date", "time"} THEN type_error
        ELSE IF field_name = s_Level
        THEN IF val.t = "float" THEN key(val.s)
             ELSE IF val.t = "int" THEN key(val.s \o <<".", "0">>)
             ELSE IF IsPyFloat(val.s) THEN key(FloatStr(val.s))
             ELSE IF IsPyInt(val.s) THEN key(IntStr(val.s) \o <<".", "0">>)
             ELSE key(val.s)
        ELSE IF val.t = "int" THEN key(val.s)
             ELSE IF val.t = "float" THEN key(TruncStr(val.s))
             ELSE IF IsPyInt(val.s) THEN key(IntStr(val.s))
             ELSE key(val.s)

RECURSIVE WalkDatasets(_, _, _, _)
\* the loop over Category, Level, Form: [d, crash, ok]
WalkDatasets(d, fields, keys, i) ==
    IF i > Len(fields) THEN [d |-> d, crash |-> "none", ok |-> TRUE]
    ELSE IF ~Has(d.extcsv, s_CONTENT) \/ ~Has(Get(d.extcsv, s_CONTENT), fields[i])
    THEN [d |-> d, crash |-> "KeyError", ok |-> FALSE]
    ELSE
      With(DatasetKey(fields[i], Get(Get(d.extcsv, s_CONTENT), fields[i])),
           LAMBDA k :
             IF k.crash # "none" THEN [d |-> d, crash |-> k.crash, ok |-> FALSE]
             ELSE IF k.found /\ k.key = keys[i]
             THEN WalkDatasets(d, fields, keys, i + 1)
             ELSE [d |-> add_to_report(d, 220, line_num_of(d, s_CONTENT) + 1),
                   crash |-> "none", ok |-> FALSE])

\* ExtendedCSV._determine_noncore_schema: [d, crash, ok]
determine_noncore_schema(d) ==
    IF ~Has(d.line_num, s_CONTENT)
    THEN [d |-> d, crash |-> "TypeError", ok |-> FALSE]
    ELSE
      With(WalkDatasets(d, <<s_Category, s_Level, s_Form>>,
                        <<DatasetCategory, DatasetLevel, DatasetForm>>, 1),
           LAMBDA w :
             IF ~w.ok THEN w
             ELSE [d |-> [w.d EXCEPT !.noncore_table_schema = DatasetTables,
                                     !.observations_table = DatasetDataTable],
                   crash |-> "none", ok |-> TRUE])

RECURSIVE DatasetTablesFrom(_, _, _, _)
\* the loop over present_tables of validate_dataset_tables: [d, ok, stop]
DatasetTablesFrom(acc, present_tables, schema, i) ==
    IF i > Len(present_tables) THEN [d |-> acc.d, ok |-> acc.ok, stop |-> "none"]
    ELSE
      LET table == present_tables[i]
          definition == Get(schema, TableType(table))
          body == Get(acc.d.extcsv, table)
      IN  IF Len(body) < 2 THEN [d |-> acc.d, ok |-> acc.ok, stop |-> "IndexError"]
          ELSE IF NotIterable(body[2].v)
          THEN [d |-> acc.d, ok |-> acc.ok, stop |-> "return"]
          ELSE IF ~Has(acc.d.line_num, table)
          THEN [d |-> acc.d, ok |-> acc.ok, stop |-> "TypeError"]
          ELSE
          With(CheckTable(acc.d, table, definition, ColumnLen(body[2].v)),
               LAMBDA chk :
                 DatasetTablesFrom([d |-> chk.d, ok |-> acc.ok /\ chk.ok],
                                   present_tables, schema, i + 1))

\* the type validate_dataset_tables looks up for an extra table
ExtraTableType(table) ==
    IF StartsWith(table, s_SAOZ_DATA_V) THEN table ELSE TableType(table)

RECURSIVE ExtraTablesFrom(_, _, _, _)
\* the loop over extra_tables: report and delete a table that is no
\* optional table of the dataset
ExtraTablesFrom(acc, extra_tables, optional_tables, i) ==
    IF i > Len(extra_tables) THEN acc
    ELSE
      LET table == extra_tables[i]
          table_type == ExtraTableType(table)
      IN  IF table_type \notin Range(optional_tables) /\ table_type # COMMENTS
          THEN LET acc1 == Report(acc, 202, NoLine)
               IN  ExtraTablesFrom([acc1 EXCEPT !.d.extcsv = Del(@, table)],
                                   extra_tables, optional_tables, i + 1)
          ELSE ExtraTablesFrom(acc, extra_tables, optional_tables, i + 1)

\* zip(*columns.values()) as a set: the rows of the columns of a table other
\* than 'comments', as many as the shortest column has values
ObservationRows(body) ==
    LET columns == SelectSeq(body, LAMBDA e : e.k # COMMENTS)
        height(k) == ColumnLen(columns[k].v)
    IN  IF Len(columns) = 0 THEN {}
        ELSE { [k \in 1..Len(columns) |-> ColumnItems(columns[k].v)[r]] :
                 r \in { n \in 1..height(1) :
                           \A k \in 1..Len(columns) : n <= height(k) } }

RECURSIVE DataRowsFrom(_, _, _)
\* the loop over the occurrences of the data table: [crash, rows]
DataRowsFrom(d, i, data_rows) ==
    IF i > table_count_of(d, d.observations_table)
    THEN [crash |-> "none", rows |-> data_rows]
    ELSE
      LET table_name == IF i > 1
                        THEN d.observations_table \o <<"_">> \o IntToStr(i)
                        ELSE d.observations_table
      IN  IF ~Has(d.extcsv, table_name)
          THEN [crash |-> "KeyError", rows |-> data_rows]
          ELSE IF \E k \in 1..Len(Get(d.extcsv, table_name)) :
                    /\ Get(d.extcsv, table_name)[k].k # COMMENTS
                    /\ NotIterable(Get(d.extcsv, table_name)[k].v)
          THEN [crash |-> "TypeError", rows |-> data_rows]
          ELSE DataRowsFrom(d, i + 1,
                  data_rows \cup ObservationRows(Get(d.extcsv, table_name)))

\* ExtendedCSV.number_of_observations: [d, crash, n]; none of the errors
\* _determine_noncore_schema raises here is one the call catches
number_of_observations(d) ==
    With(IF Len(d.observations_table) = 0
         THEN determine_noncore_schema(d)
         ELSE [d |-> d, crash |-> "none", ok |-> TRUE],
         LAMBDA det :
           IF det.crash # "none" THEN [d |-> det.d, crash |-> det.crash, n |-> 0]
           ELSE With(DataRowsFrom(det.d, 1, {}),
                     LAMBDA counted :
                       [d |-> det.d, crash |-> counted.crash,
                        n |-> Cardinality(counted.rows)]))

\* ExtendedCSV.validate_dataset_tables: [d, outcome]; outcome is "True",
\* "False", "returned" (a bare return) or the name of the exception raised
validate_dataset_tables(d) ==
    With(IF Len(d.noncore_table_schema) = 0
         THEN determine_noncore_schema(d)
         ELSE [d |-> d, crash |-> "none", ok |-> TRUE],
         LAMBDA det :
    With(det.d, LAMBDA d0 :
    With(det.d.noncore_table_schema, LAMBDA schema :
        IF det.crash # "none" THEN [d |-> d0, outcome |-> det.crash]
        ELSE IF Len(schema) = 0 THEN [d |-> d0, outcome |-> "False"]
        ELSE
        LET schema_required == SelectSeq(Keys(schema),
                                  LAMBDA name : Get(schema, name).has_required)
            optional_tables ==
                SelectSeq(Keys(schema),
                          LAMBDA name : ~Get(schema, name).has_required)
                  \o (IF d0.schema_has_data_table
                      THEN << <<"d", "a", "t", "a", "_", "t", "a", "b", "l", "e">> >>
                      ELSE <<>>)
            missing_tables == MissingTables(d0, schema_required)
            present_tables == PresentTables(d0, schema)
            required_tables == schema_required \o Keys(Common)
            extra_tables == SelectSeq(Keys(d0.extcsv),
                               LAMBDA table :
                                   TableType(table) \notin Range(required_tables))
        IN  IF ~Has(d0.extcsv, s_CONTENT)
               \/ ~Has(Get(d0.extcsv, s_CONTENT), s_Category)
            THEN [d |-> d0, outcome |-> "KeyError"]
            ELSE
            With(ReportMissingTables([d |-> d0, ok |-> TRUE], missing_tables, 1),
                 LAMBDA acc0 :
            With(check_table_occurrences(acc0.d, schema), LAMBDA occ :
            With(DatasetTablesFrom([d |-> occ.d, ok |-> acc0.ok /\ occ.ok],
                                   present_tables, schema, 1),
                 LAMBDA res :
            IF res.stop = "return" THEN [d |-> res.d, outcome |-> "returned"]
            ELSE IF res.stop # "none" THEN [d |-> res.d, outcome |-> res.stop]
            ELSE
            With(ExtraTablesFrom([d |-> res.d, ok |-> res.ok],
                                 extra_tables, optional_tables, 1),
                 LAMBDA ext :
            IF ext.ok
            THEN With(collimate_tables(ext.d, present_tables, schema),
                      LAMBDA c :
                        IF c.crash # "none"
                        THEN [d |-> c.d, outcome |-> c.crash]
                        ELSE [d |-> [c.d EXCEPT !.schema_has_data_table = TRUE],
                              outcome |-> "True"])
            ELSE [d |-> ext.d, outcome |-> "MetadataValidationError"])))))))

\* ------------------------------------------------------------------------
\* _determine_version
\*
\* schema is the node of DOMAINS['Datasets'] that holds one table
\* dictionary per version: version |-> the keys of that dictionary.
\* ------------------------------------------------------------------------

\* uniques[version]: the keys of a version that no other version has
Uniques(schema, version) ==
    { t \in Range(Get(schema, version)) :
        \A i \in 1..Len(schema) :
          schema[i].k # version => t \notin Range(schema[i].v) }

\* len(candidates[version]): the tables of the document in uniques[version]
Candidates(d, schema, version) ==
    Len(SelectSeq(Keys(d.extcsv), LAMBDA t : t \in Uniques(schema, version)))

\* rating(v) <= rating(w) for ratings len(candidates) / len(uniques) with
\* non-zero divisors
RatingLeq(d, schema, v, w) ==
    Candidates(d, schema, v) * Cardinality(Uniques(schema, w))
      <= Candidates(d, schema, w) * Cardinality(Uniques(schema, v))

\* ExtendedCSV._determine_version: [d, crash, versions]. The loop that
\* returns walks a set of strings, whose order changes from one run to
\* the next: versions holds every version the call can return.
determine_version(d, schema) ==
    IF \E i \in 1..Len(schema) : Uniques(schema, schema[i].k) = {}
    THEN [d |-> d, crash |-> "ZeroDivisionError", versions |-> {}]
    ELSE IF \A i \in 1..Len(schema) : Candidates(d, schema, schema[i].k) = 0
    THEN [d |-> add_to_report(d, 210, NoLine),
          crash |-> "NonStandardDataError", versions |-> {}]
    ELSE [d |-> d, crash |-> "none",
          versions |-> { v \in Range(Keys(schema)) :
                           \A i \in 1..Len(schema) :
                             RatingLeq(d, schema, schema[i].k, v) }]

\* ------------------------------------------------------------------------
\* Writer.serialize
\*
\* The text is kept as the rows csv.reader yields for it: a header or
\* comment line is one row, a blank line the empty row.
\* ------------------------------------------------------------------------

\* str(value) as csv.writer writes it; None is written as the empty string
CellStr(val) == IF val.t = "none" THEN <<>> ELSE val.s

\* the header line of a table: the name up to its first digit, less one
\* more character (table[0: first_num - 1]), or the whole name
HeaderLine(table) ==
    LET digits == {i \in 1..Len(table) : table[i] \in Digits}
    IN  IF digits = {} THEN <<"#">> \o table
        ELSE LET first_num == (CHOOSE i \in digits : \A j \in digits : i <= j) - 1
             IN  <<"#">> \o (IF first_num = 0 THEN SubSeq(table, 1, Len(table) - 1)
                             ELSE SubSeq(table, 1, first_num - 1))

\* '* %s' % comment, as csv.reader splits the line afterwards
CommentRow(comment) == Split(<<"*", " ">> \o comment, ",")

\* len(value) raises TypeError
NoLen(column) == ~column.list /\ column.v[1].t # "str"

\* max_len of a table
MaxLen(values) ==
    IF ~values[1].list THEN 1
    ELSE IF \E i \in 1..Len(values) : NoLen(values[i]) THEN 1
    ELSE CHOOSE n \in {ColumnLen(values[i]) : i \in 1..Len(values)} :
             \A i \in 1..Len(values) : ColumnLen(values[i]) <= n

\* `for j in range(len(row) - 1, 0, -1): if row[j] != '': break
\*  else: row.pop(j)`: trailing empty strings go, the first cell stays
RECURSIVE CleanUp(_)
CleanUp(row) ==
    IF Len(row) > 1 /\ row[Len(row)] = Raw(<<>>)
    THEN CleanUp(SubSeq(row, 1, Len(row) - 1))
    ELSE row

\* row i (0-based) of a table
ValueRow(values, i) ==
    LET cell(column) == IF column.list
                        THEN IF i + 1 <= Len(column.v) THEN column.v[i + 1]
                             ELSE Raw(<<>>)
                        ELSE column.v[1]
        cleaned == CleanUp([k \in 1..Len(values) |-> cell(values[k])])
    IN  [k \in 1..Len(cleaned) |-> CellStr(cleaned[k])]

\* the lines written for one table
TableRows(table, body, is_last) ==
    LET fields == Tail_(Keys(body), 2)
        values == [k \in 1..Len(fields) |-> Get(body, fields[k])]
        t_comments == Get(body, COMMENTS).v
    IN  <<  <<HeaderLine(table)>>, fields >>
          \o [i \in 1..MaxLen(values) |-> ValueRow(values, i - 1)]
          \o [i \in 1..Len(t_comments) |-> CommentRow(t_comments[i].s)]
          \o (IF is_last THEN <<>> ELSE << <<>> >>)

RECURSIVE SerializeFrom(_, _)
SerializeFrom(extcsv, i) ==
    IF i > Len(extcsv) THEN <<>>
    ELSE TableRows(extcsv[i].k, extcsv[i].v, i = Len(extcsv))
           \o SerializeFrom(extcsv, i + 1)

\* Writer.serialize: [crash, text]; values[0] raises IndexError for a
\* table without fields
serialize(d) ==
    IF \E i \in 1..Len(d.extcsv) : Len(d.extcsv[i].v) < 2
    THEN [crash |-> "IndexError", text |-> <<>>]
    ELSE [crash |-> "none",
          text |-> [i \in 1..Len(d.file_comments) |->
                       CommentRow(d.file_comments[i])]
                     \o (IF Len(d.file_comments) # 0 THEN << <<>> >> ELSE <<>>)
                     \o SerializeFrom(d.extcsv, 1)]

\* ------------------------------------------------------------------------
\* Writer: add_table, add_field, add_data, remove_data
\* ------------------------------------------------------------------------

\* max(self.line_num(), key=self.line_num().get): the first table with the
\* greatest header line
LastTable(d) ==
    LET best == CHOOSE i \in 1..Len(d.line_num) :
                    /\ \A j \in 1..Len(d.line_num) : d.line_num[j].v <= d.line_num[i].v
                    /\ \A j \in 1..(i - 1) : d.line_num[j].v < d.line_num[i].v
    IN  d.line_num[best].k

\* the line number Writer.add_table and Writer.add_data compute from the
\* last table: [crash, n]; <default> is the value of the ValueError branch
WriterLineNum(d, default) ==
    IF Len(d.line_num) = 0 THEN [crash |-> "none", n |-> default]
    ELSE IF ~Has(d.extcsv, LastTable(d)) THEN [crash |-> "KeyError", n |-> 0]
    ELSE
      LET body == Get(d.extcsv, LastTable(d))
          lens == {ColumnLen(body[i].v) : i \in 1..Len(body)}
      IN  IF \E i \in 1..Len(body) : NoLen(body[i].v)
          THEN [crash |-> "TypeError", n |-> 0]
          ELSE [crash |-> "none",
                n |-> (CHOOSE m \in lens : \A l \in lens : l <= m)
                        + Get(d.line_num, LastTable(d))
                        + ColumnLen(Get(body, COMMENTS)) + 2]

\* Writer.add_table: [d, crash]
add_table(d, table) ==
    LET ln == WriterLineNum(d, 0)
    IN  IF ln.crash # "none" THEN [d |-> d, crash |-> ln.crash]
        ELSE [d |-> init_table(d, table, <<>>, ln.n), crash |-> "none"]

RECURSIVE AddFields(_, _, _)
AddFields(body, fields, i) ==
    IF i > Len(fields) THEN body
    ELSE AddFields(IF Has(body, fields[i]) THEN body
                   ELSE Put(body, Strip(fields[i]), ListCol(<<>>)),
                   fields, i + 1)

\* ExtendedCSV.add_field_to_table: [d, crash]
add_field_to_table(d, table_name, fields, index) ==
    LET name == _table_index(table_name, index)
    IN  IF ~Has(d.line_num, name) THEN [d |-> d, crash |-> "none"]
        ELSE IF ~Has(d.extcsv, name) THEN [d |-> d, crash |-> "KeyError"]
        ELSE [d |-> [d EXCEPT !.extcsv =
                        Put(@, name, AddFields(Get(d.extcsv, name), fields, 1))],
              crash |-> "none"]

\* Writer.add_field with a list of field names: [d, crash]
add_field(d, table, field, index) ==
    LET table_n == _table_index(table, index)
        added == IF ~Has(d.extcsv, table_n) THEN add_table(d, table)
                 ELSE [d |-> d, crash |-> "none"]
    IN  IF added.crash # "none" THEN added
        ELSE add_field_to_table(added.d, table, field, index)

RECURSIVE AddMissingFields(_, _, _, _, _)
\* for f in field_l: if f not in list(self.extcsv[table_n]): add_field(...)
AddMissingFields(acc, table, field_l, index, i) ==
    IF i > Len(field_l) \/ acc.crash # "none" THEN acc
    ELSE IF ~Has(acc.d.extcsv, _table_index(table, index))
    THEN [d |-> acc.d, crash |-> "KeyError"]
    ELSE AddMissingFields(
           IF Has(Get(acc.d.extcsv, _table_index(table, index)), field_l[i])
           THEN acc ELSE add_field(acc.d, table, <<field_l[i]>>, index),
           table, field_l, index, i + 1)

RECURSIVE AppendColumn(_, _, _, _)
\* for value in values: body[field].append(value)
AppendColumn(body, field, values, i) ==
    IF i > Len(values) THEN body
    ELSE LET col == Get(body, field)
         IN  AppendColumn(Put(body, field,
                              [col EXCEPT !.v = Append(@, Raw(values[i]))]),
                          field, values, i + 1)

\* ExtendedCSV.add_values_to_table with <fields>: the horizontal insert
\* pads the caller's lists with the fields it did not name, then zips
add_values_with_fields(d, table_name, values, fields, horizontal) ==
    LET body == Get(d.extcsv, table_name)
        all_fields == Tail_(Keys(body), 2)
        unnamed == SelectSeq(all_fields, LAMBDA f : f \notin Range(fields))
        fields1 == fields \o unnamed
        values1 == values \o [i \in 1..Len(unnamed) |-> <<>>]
    IN  IF horizontal
        THEN [d EXCEPT !.extcsv =
                 Put(@, table_name, AppendRow(body, fields1, values1, 1))]
        ELSE [d EXCEPT !.extcsv =
                 Put(@, table_name, AppendColumn(body, fields[1], values, 1))]

\* Writer.add_data with lists; has_field is false for field=None: [d, crash]
add_data(d, table, data_l, field, has_field, index) ==
    LET table_n == _table_index(table, index)
        added == IF ~Has(d.extcsv, table_n) THEN add_table(d, table)
                 ELSE [d |-> d, crash |-> "none"]
    IN  IF added.crash # "none" THEN added
        ELSE IF ~Has(added.d.extcsv, table_n)
        THEN [d |-> added.d, crash |-> "KeyError"]
        ELSE
        LET fielded == IF has_field
                       THEN AddMissingFields(added, table, field, index, 1)
                       ELSE added
            field_l == IF has_field THEN field
                       ELSE Tail_(Keys(Get(added.d.extcsv, table_n)), 2)
            vertical == Len(data_l) # Len(field_l) /\ Len(field_l) = 1
            ln == WriterLineNum(fielded.d, 2)
        IN  IF fielded.crash # "none" THEN fielded
            ELSE IF ln.crash # "none"
            THEN \* only the horizontal insert catches the exception
                 [d |-> fielded.d,
                  crash |-> IF vertical THEN ln.crash ELSE "none"]
            ELSE IF \E i \in 1..Len(field_l) :
                        ~Has(Get(fielded.d.extcsv, table_n), field_l[i])
            THEN [d |-> fielded.d, crash |-> IF vertical THEN "KeyError" ELSE "none"]
            ELSE [d |-> add_values_with_fields(fielded.d, table_n, data_l,
                                               field_l, ~vertical),
                  crash |-> "none"]

\* s without its element at 0-based index i
PopAt(s, i) == SubSeq(s, 1, i) \o SubSeq(s, i + 2, Len(s))

\* ExtendedCSV.remove_values_from_table with d_index: [d, crash]
remove_values_from_table(d, table, field, index, d_index) ==
    LET table_n == _table_index(table, index)
    IN  IF ~Has(d.extcsv, table_n) \/ ~Has(Get(d.extcsv, table_n), field)
        THEN [d |-> d, crash |-> "KeyError"]
        ELSE
        LET body == Get(d.extcsv, table_n)
            col == Get(body, field)
        IN  IF ~col.list THEN [d |-> d, crash |-> "AttributeError"]
            ELSE IF d_index >= Len(col.v) THEN [d |-> d, crash |-> "none"]
            ELSE [d |-> [d EXCEPT !.extcsv =
                            Put(@, table_n,
                                Put(body, field,
                                    [col EXCEPT !.v = PopAt(@, d_index)]))],
                  crash |-> "none"]

\* ------------------------------------------------------------------------
\* Inputs: the texts given to the reader and the arguments given to the
\* writer
\* ------------------------------------------------------------------------

\* the longest run of blocks a text is made of, after its opening tables
MaxBlocks == 1

\* the number of editing calls made on one writer
MaxEdits == 4

\* the number of validator calls made on one document
MaxCalls == 2

\* the number of times a serialized text is read back
MaxLoads == 1

v_date == <<"2", "0", "2", "0", "-", "0", "1", "-", "0", "2">>
v_time == <<"1", "0", ":", "3", "0">>
v_junk == <<"x", "x">>
v_wlcode == <<"9">>
v_obscode == <<"D", "S">>
s_EXTRA == <<"E", "X", "T", "R", "A">>
s_TIMESTAMP_2 == s_TIMESTAMP \o <<"_", "2">>

\* the header line of a table
Header(name) == << <<"#">> \o name >>

\* a table as the lines of a file: header, field names, rows
Block(name, fields, rows) == <<Header(name), fields>> \o rows

ContentBlock ==
    Block(s_CONTENT, <<s_Category, s_Level, s_Form>>,
          << <<DatasetCategory, DatasetLevel, DatasetForm>> >>)

TimestampBlock == Block(s_TIMESTAMP, <<s_Date>>, << <<v_date>> >>)

\* the blocks texts are composed of: well-formed tables, tables with one
\* defect each, and lines outside any table
Blocks ==
    { ContentBlock,
      TimestampBlock,
      Block(s_TIMESTAMP_2, <<s_Date>>, << <<v_date>> >>),
      Block(s_CONTENT \o <<"_", "2">>, <<s_Category, s_Level, s_Form>>,
            << <<DatasetCategory, DatasetLevel, DatasetForm>> >>),
      Block(s_TIMESTAMP, <<s_Date, s_Time>>, << <<v_date, v_junk>> >>),
      Block(s_TIMESTAMP, <<Lower(s_Date), <<"T", "I", "M", "E">>, v_junk>>,
            << <<v_date, v_time, v_junk>> >>),
      Block(s_TIMESTAMP, <<s_Date, s_Time>>, << << <<>>, v_time>> >>),
      Block(s_TIMESTAMP, <<s_Time>>, << <<v_time>> >>),
      Block(s_TIMESTAMP, <<s_Date, Lower(s_Date)>>, << <<v_date, v_date>> >>),
      Block(s_DAILY, <<s_WLCode, s_ObsCode>>,
            << <<v_wlcode, v_obscode>>, <<v_wlcode>> >>),
      Block(s_DAILY, <<s_WLCode, s_ObsCode>>,
            << <<v_wlcode, v_obscode>>, << <<>>, v_obscode>> >>),
      Block(s_SAOZ_DATA_V2, <<s_Flag>>, << <<v_wlcode>> >>),
      Block(s_TIMESTAMP, <<s_Date>>, <<>>),
      Block(s_TIMESTAMP, <<s_Date>>, << <<v_date>>, <<v_date>> >>),
      Block(s_MONTHLY, <<s_Npts>>, <<>>),
      << Header(s_MONTHLY), <<>> >>,
      Block(s_EXTRA, <<s_Flag>>, << <<v_wlcode>> >>),
      << <<v_junk>> >>,
      << << <<"*", " ">> \o v_junk >> >> }

\* how a text opens: with nothing, with one or both of the tables every file
\* needs, with these and a second TIMESTAMP table, or with a CONTENT table
\* of a category no dataset has
Openings ==
    { <<>>,
      ContentBlock,
      ContentBlock \o TimestampBlock,
      Block(s_CONTENT, <<s_Category, s_Level, s_Form>>,
            << <<v_junk, DatasetLevel, DatasetForm>> >>) \o TimestampBlock,
      ContentBlock \o TimestampBlock
        \o Block(s_TIMESTAMP, <<s_Time>>, << <<v_time>> >>),
      ContentBlock \o TimestampBlock
        \o Block(s_DAILY, <<s_WLCode>>, << <<v_wlcode>>, <<v_wlcode>> >>) }

RECURSIVE Concat(_)
Concat(seqs) == IF Len(seqs) = 0 THEN <<>> ELSE seqs[1] \o Concat(Tail(seqs))

\* the texts given to the reader
Texts ==
    { opening \o Concat(blocks) :
        opening \in Openings,
        blocks \in UNION { [1..n -> Blocks] : n \in 0..MaxBlocks } }

\* the calls made on a writer, in the order a caller makes them; a call may
\* be made more than once, and any may be left out.  For add_data, field is
\* None when has_field is false.
Script ==
    << [call |-> "add_table", table |-> s_TIMESTAMP],
       [call |-> "add_data", table |-> s_CONTENT,
        data |-> <<DatasetCategory, DatasetLevel, DatasetForm>>,
        field |-> <<s_Category, s_Level, s_Form>>, has_field |-> TRUE],
       [call |-> "add_data", table |-> s_TIMESTAMP, data |-> <<v_date>>,
        field |-> <<s_Date>>, has_field |-> TRUE],
       [call |-> "add_field", table |-> s_TIMESTAMP, field |-> s_Time],
       [call |-> "remove_data", table |-> s_TIMESTAMP, field |-> s_Date],
       [call |-> "add_data", table |-> s_DAILY, data |-> <<v_wlcode, v_wlcode>>,
        field |-> <<s_WLCode>>, has_field |-> TRUE],
       [call |-> "add_data", table |-> s_DAILY, data |-> <<v_wlcode>>,
        field |-> <<>>, has_field |-> FALSE],
       [call |-> "add_data", table |-> s_SAOZ_DATA_V2, data |-> <<v_wlcode>>,
        field |-> <<s_Flag>>, has_field |-> TRUE] >>

\* the places of a call in the script
Calls(call) == { i \in 1..Len(Script) : Script[i].call = call }

s_data_table == <<"d", "a", "t", "a", "_", "t", "a", "b", "l", "e">>

\* the schema nodes given to _determine_version: two versions where the
\* tables of the first are among those of the second, where each has one
\* table of its own, and where the second has two of its own
VersionNodes ==
    { << [k |-> "1", v |-> <<s_DAILY, s_data_table>>],
         [k |-> "2", v |-> <<s_DAILY, s_MONTHLY, s_data_table>>] >>,
      << [k |-> "1", v |-> <<s_DAILY, s_data_table>>],
         [k |-> "2", v |-> <<s_SAOZ_DATA_V2, s_data_table>>] >>,
      << [k |-> "1", v |-> <<s_DAILY, s_data_table>>],
         [k |-> "2", v |-> <<s_SAOZ_DATA_V2, s_MONTHLY, s_data_table>>] >> }

\* ------------------------------------------------------------------------
\* The state machine: one document, held by a Reader or by a Writer
\* ------------------------------------------------------------------------

VARIABLES
    extcsv,                 \* ExtendedCSV.extcsv
    table_count,            \* ExtendedCSV._table_count
    line_num,               \* ExtendedCSV._line_num
    file_comments,          \* ExtendedCSV.file_comments
    warnings,               \* ExtendedCSV.warnings
    errors,                 \* ExtendedCSV.errors
    raw,                    \* ExtendedCSV._raw
    noncore_table_schema,   \* ExtendedCSV._noncore_table_schema
    observations_table,     \* ExtendedCSV._observations_table
    schema_has_data_table,  \* 'data_table' in ExtendedCSV._noncore_table_schema
    reports,                \* the diagnostics in the order _add_to_report got them
    writer,                 \* the document is the ecsv of a Writer
    op,                     \* the last call made on the document
    outcome,                \* what that call returned or raised
    calls,                  \* validator calls made so far
    edits,                  \* editing calls made so far
    turn,                   \* the place in the script of the last editing call
    version_schema,         \* the schema of the last _determine_version call
    observed,               \* the value number_of_observations returned last
    timestamp,              \* the string given to parse_timestamp
    parsed,                 \* the value the parser called last returned
    args,                   \* the field and value given to a parser or typecast_value
    loads                   \* serialized texts read back so far

vars ==
    <<extcsv, table_count, line_num, file_comments, warnings, errors, raw,
      noncore_table_schema, observations_table, schema_has_data_table,
      reports, writer, op, outcome, calls, edits, turn, version_schema, observed, loads,
      timestamp, parsed, args>>

\* the fields of the document as one record
Doc ==
    [extcsv |-> extcsv, table_count |-> table_count, line_num |-> line_num,
     file_comments |-> file_comments, warnings |-> warnings, errors |-> errors,
     noncore_table_schema |-> noncore_table_schema,
     observations_table |-> observations_table,
     schema_has_data_table |-> schema_has_data_table, reports |-> reports]

\* the fields of the document after a call that left it as d
SetDoc(d) ==
    /\ extcsv' = d.extcsv
    /\ table_count' = d.table_count
    /\ line_num' = d.line_num
    /\ file_comments' = d.file_comments
    /\ warnings' = d.warnings
    /\ errors' = d.errors
    /\ noncore_table_schema' = d.noncore_table_schema
    /\ observations_table' = d.observations_table
    /\ schema_has_data_table' = d.schema_has_data_table
    /\ reports' = d.reports

Init ==
    /\ extcsv = EmptyDoc.extcsv
    /\ table_count = EmptyDoc.table_count
    /\ line_num = EmptyDoc.line_num
    /\ file_comments = EmptyDoc.file_comments
    /\ warnings = EmptyDoc.warnings
    /\ errors = EmptyDoc.errors
    /\ noncore_table_schema = EmptyDoc.noncore_table_schema
    /\ observations_table = EmptyDoc.observations_table
    /\ schema_has_data_table = EmptyDoc.schema_has_data_table
    /\ reports = EmptyDoc.reports
    /\ raw = <<>>
    /\ writer = FALSE
    /\ op = "none"
    /\ outcome = "none"
    /\ calls = 0
    /\ edits = 0
    /\ turn = 1
    /\ version_schema = <<>>
    /\ observed = 0
    /\ timestamp = <<>>
    /\ parsed = NoneValue
    /\ args = <<>>
    /\ loads = 0

\* what ExtendedCSV(content) does for its caller: the object, or the
\* exception that left the loop or was raised after it
Constructed(st) ==
    IF st.crash # "none" THEN st.crash
    ELSE IF ~st.success THEN "NonStandardDataError"
    ELSE "constructed"

\* there is a document to call: the constructor returned one
Usable == op # "none" /\ (op \in {"read", "read_back"} => outcome = "constructed")

\* the end of a constructor call that left the parsing loop as st
ConstructedAs(st) ==
    /\ SetDoc(st.d)
    /\ outcome' = Constructed(st)

\* Reader(content)
Read(text) ==
    /\ op = "none"
    /\ ConstructedAs(Parse(text))
    /\ raw' = text
    /\ writer' = FALSE
    /\ op' = "read"
    /\ UNCHANGED <<calls, edits, turn, version_schema, observed, loads, timestamp, parsed, args>>

\* Writer(): a writer around ExtendedCSV('')
NewWriter ==
    /\ op = "none"
    /\ ConstructedAs(Parse(<<>>))
    /\ raw' = <<>>
    /\ writer' = TRUE
    /\ op' = "writer"
    /\ UNCHANGED <<calls, edits, turn, version_schema, observed, loads, timestamp, parsed, args>>

\* the writer may still be edited with the call at place i of the script:
\* editing comes before validation and serialization
Editable(i) ==
    /\ writer
    /\ op \in {"writer", "edit"}
    /\ edits < MaxEdits
    /\ i >= turn

\* the end of the editing call at place i that left [d, crash]
Edited(i, r) ==
    /\ SetDoc(r.d)
    /\ turn' = i
    /\ outcome' = IF r.crash = "none" THEN "returned" ELSE r.crash
    /\ op' = "edit"
    /\ edits' = edits + 1
    /\ UNCHANGED <<raw, writer, calls, version_schema, observed, loads, timestamp, parsed, args>>

\* Writer.add_table(table)
AddTable(i) ==
    /\ Editable(i)
    /\ Edited(i, add_table(Doc, Script[i].table))

\* Writer.add_field(table, [field])
AddField(i) ==
    /\ Editable(i)
    /\ Edited(i, add_field(Doc, Script[i].table, <<Script[i].field>>, 1))

\* Writer.add_data(table, data, field)
AddData(i) ==
    /\ Editable(i)
    /\ Edited(i, add_data(Doc, Script[i].table, Script[i].data, Script[i].field,
                          Script[i].has_field, 1))

\* Writer.remove_data(table, field, d_index=0)
RemoveData(i) ==
    /\ Editable(i)
    /\ Edited(i, remove_values_from_table(Doc, Script[i].table, Script[i].field,
                                          1, 0))

\* the validators are called on a document before its text is written, and
\* before a caller asks for the version of its schema
Validable ==
    Usable /\ op \notin {"serialize", "determine_version", "number_of_observations"}

\* the end of a validator call that left [d, outcome]
Validated(r) ==
    /\ SetDoc(r.d)
    /\ outcome' = r.outcome

\* Reader.metadata_validator / Writer.metadata_validator
ValidateMetadata ==
    /\ Validable
    /\ calls < MaxCalls
    /\ Validated(validate_metadata_tables(Doc))
    /\ op' = "validate_metadata"
    /\ calls' = calls + 1
    /\ UNCHANGED <<raw, writer, edits, turn, version_schema, observed, loads, timestamp, parsed, args>>

\* Reader.dataset_validator / Writer.dataset_validator
ValidateDataset ==
    /\ Validable
    /\ calls < MaxCalls
    /\ Validated(validate_dataset_tables(Doc))
    /\ op' = "validate_dataset"
    /\ calls' = calls + 1
    /\ UNCHANGED <<raw, writer, edits, turn, version_schema, observed, loads, timestamp, parsed, args>>

\* the end of a _determine_version call that left [d, crash, versions]: the
\* outcome is the version returned or the name of the exception raised
VersionDetermined(r) ==
    /\ SetDoc(r.d)
    /\ IF r.crash # "none" THEN outcome' = r.crash ELSE outcome' \in r.versions

\* ExtendedCSV._determine_version(schema)
DetermineVersion(schema) ==
    /\ Validable
    /\ calls < MaxCalls
    /\ VersionDetermined(determine_version(Doc, schema))
    /\ op' = "determine_version"
    /\ calls' = calls + 1
    /\ version_schema' = schema
    /\ UNCHANGED <<raw, writer, edits, turn, observed, loads, timestamp, parsed, args>>

\* the end of a number_of_observations call that left [d, crash, n]
Counted(r) ==
    /\ SetDoc(r.d)
    /\ outcome' = IF r.crash = "none" THEN "returned" ELSE r.crash
    /\ observed' = IF r.crash = "none" THEN r.n ELSE observed

\* ExtendedCSV.number_of_observations()
NumberOfObservations ==
    /\ Validable
    /\ calls < MaxCalls
    /\ Counted(number_of_observations(Doc))
    /\ op' = "number_of_observations"
    /\ calls' = calls + 1
    /\ UNCHANGED <<raw, writer, edits, turn, version_schema, loads, timestamp,
                   parsed, args>>

\* the end of a serialize call that left [crash, text]
Serialized(r) ==
    /\ raw' = IF r.crash = "none" THEN r.text ELSE raw
    /\ outcome' = IF r.crash = "none" THEN "serialized" ELSE r.crash

\* Writer.serialize
Serialize ==
    /\ writer
    /\ Validable
    /\ Serialized(serialize(Doc))
    /\ op' = "serialize"
    /\ UNCHANGED <<extcsv, table_count, line_num, file_comments, warnings,
                   errors, noncore_table_schema, observations_table,
                   schema_has_data_table, reports, writer, calls, edits,
                   turn, version_schema, observed, loads, timestamp, parsed,
                   args>>

\* loads(text) of the text a writer has just serialized
ReadBack ==
    /\ op = "serialize"
    /\ outcome = "serialized"
    /\ loads < MaxLoads
    /\ ConstructedAs(Parse(raw))
    /\ writer' = FALSE
    /\ op' = "read_back"
    /\ loads' = loads + 1
    /\ UNCHANGED <<raw, calls, edits, turn, version_schema, observed, timestamp,
                   parsed, args>>

Next ==
    \/ \E text \in Texts : Read(text)
    \/ NewWriter
    \/ \E i \in Calls("add_table") : AddTable(i)
    \/ \E i \in Calls("add_field") : AddField(i)
    \/ \E i \in Calls("add_data") : AddData(i)
    \/ \E i \in Calls("remove_data") : RemoveData(i)
    \/ ValidateMetadata
    \/ ValidateDataset
    \/ \E schema \in VersionNodes : DetermineVersion(schema)
    \/ NumberOfObservations
    \/ Serialize
    \/ ReadBack

Spec == Init /\ [][Next]_vars

\* ------------------------------------------------------------------------
\* parse_timestamp called on a fresh document
\* ------------------------------------------------------------------------

Hours == {0, 8, 11, 12, 13, 23, 24}
Minutes == {0, 59, 60, 84, 85}
Seconds == {0, 59, 60, 150, 3600, 36001}

\* the meridiem markers of the inputs: none, and am and pm in either letter
\* case, joined to the time or after a space
Markers ==
    { <<>>, <<"a", "m">>, <<"p", "m">>, <<" ", "a", "m">>, <<" ", "p", "m">>,
      <<"A", "M">>, <<"P", "M">>, <<" ", "A", "M">>, <<" ", "P", "M">> }

\* the text H:M:S of three numbers, with a marker after it
TimeText(h, m, sec, marker) ==
    TwoDigits(h) \o <<":">> \o TwoDigits(m) \o <<":">> \o TwoDigits(sec) \o marker

Timestamps ==
    { TimeText(h, m, sec, marker) :
        h \in Hours, m \in Minutes, sec \in Seconds, marker \in Markers }

TimeInit ==
    /\ extcsv = EmptyDoc.extcsv
    /\ table_count = EmptyDoc.table_count
    /\ line_num = EmptyDoc.line_num
    /\ file_comments = EmptyDoc.file_comments
    /\ warnings = EmptyDoc.warnings
    /\ errors = EmptyDoc.errors
    /\ noncore_table_schema = EmptyDoc.noncore_table_schema
    /\ observations_table = EmptyDoc.observations_table
    /\ schema_has_data_table = EmptyDoc.schema_has_data_table
    /\ reports = EmptyDoc.reports
    /\ raw = <<>>
    /\ writer = FALSE
    /\ op = "none"
    /\ outcome = "none"
    /\ calls = 0
    /\ edits = 0
    /\ turn = 1
    /\ version_schema = <<>>
    /\ observed = 0
    /\ loads = 0
    /\ timestamp \in Timestamps
    /\ parsed = NoneValue
    /\ args = <<>>

\* the end of a parse_timestamp call that left [d, ok, v]
Parsed(r) ==
    /\ SetDoc(r.d)
    /\ outcome' = IF r.ok THEN "returned" ELSE "ValueError"
    /\ parsed' = r.v

\* ExtendedCSV.parse_timestamp(table, timestamp, line_num)
ParseTimestamp ==
    /\ op = "none"
    /\ Parsed(parse_timestamp(Doc, timestamp, 1))
    /\ op' = "parse_timestamp"
    /\ UNCHANGED <<raw, writer, calls, edits, turn, version_schema, observed,
                   loads, timestamp, args>>

TimeNext == ParseTimestamp

TimeSpec == TimeInit /\ [][TimeNext]_vars

\* ------------------------------------------------------------------------
\* parse_datestamp, parse_utcoffset and typecast_value called on a fresh
\* document
\* ------------------------------------------------------------------------

Years == {1923, 1924, 1996, 1997, PresentYear, PresentYear + 1}
Months == {0, 1, 2, 4, 12, 13, 31}
Days == {0, 1, 12, 29, 30, 31, 32}

\* the text Y-M-D of three numbers with the separator sep
DateText(y, m, day, sep) ==
    IntToStr(y) \o sep \o TwoDigits(m) \o sep \o TwoDigits(day)

\* dates of three numbers, and texts of fewer or more parts, of a part that
\* is no number, of a year of five digits and of a number with an underscore
Datestamps ==
    { DateText(y, m, day, sep) :
        y \in Years, m \in Months, day \in Days, sep \in {<<"-">>, <<"/">>} }
      \cup { <<>>, IntToStr(1996), IntToStr(1996) \o <<"-", "0", "1">>,
             DateText(1996, 1, 2, <<"-">>) \o <<"-", "0", "3">>,
             <<"a", "-", "0", "1", "-", "0", "2">>,
             IntToStr(1996) \o <<"-", "-", "0", "1">>,
             <<"0">> \o DateText(1996, 1, 2, <<"-">>),
             <<"1", "_", "9", "9", "6", "-", "0", "1", "-", "0", "2">>,
             <<"1", "9", "9", "6", "-", "1", "-", "2">> }

\* the parts of a UTC offset of the expected shape: sign, hour, then
\* minute and second, which may be absent (has_minute, has_second false) or
\* empty; sep separates them
OffsetParts ==
    { [sign |-> sg, hour |-> h, has_minute |-> hm, minute |-> m,
       has_second |-> hs, second |-> sec, sep |-> sep] :
        sg \in OffsetSigns,
        h \in {<<"0">>, <<"8">>, <<"0", "0">>, <<"0", "8">>, <<"1", "3">>,
               <<"2", "3">>, <<"2", "4">>},
        hm \in BOOLEAN, hs \in BOOLEAN,
        m \in {<<>>, <<"0">>, <<"5">>, <<"0", "0">>, <<"3", "0">>, <<"6", "0">>},
        sec \in {<<>>, <<"0">>, <<"0", "0">>, <<"5", "9">>, <<"6", "0">>},
        sep \in {<<":">>, <<".">>} }

\* the text of such parts
OffsetText(o) ==
    o.sign \o o.hour
      \o (IF o.has_minute THEN o.sep \o o.minute ELSE <<>>)
      \o (IF o.has_minute /\ o.has_second THEN o.sep \o o.second ELSE <<>>)

\* offsets of the expected shape, strings of zeros, and texts of neither
\* kind
Offsets ==
    { OffsetText(o) : o \in OffsetParts }
      \cup { <<"0", "0", "0">>, <<"+", "0", "0", "0", "0", "0", "0">>,
             <<"-", "0", "0", "0", ":", "0">> }
      \cup { <<"+">>, <<"1", "2", "3">>, <<"a", "b">>,
             <<"0", "8", ":", "0", "0", ":", "0", "0", ":", "0", "0">>,
             <<"+", "0", "8", ":", "0", "0", "0">>, <<"-", "+", "0", "8">> }

s_UTCOffset == <<"U", "T", "C", "O", "f", "f", "s", "e", "t">>

\* cells of every kind typecast_value tells apart: empty, a time, a date,
\* an offset, texts no parser takes, numbers with and without a point or
\* a leading zero, and words
Cells ==
    { <<>>, TimeText(8, 84, 150, <<>>), TimeText(24, 0, 0, <<>>),
      DateText(1996, 1, 12, <<"-">>), DateText(1996, 31, 12, <<"-">>),
      <<"+", "-", "0", "8", ":", "0", "0", ":", "0", "0">>,
      <<"0">>, <<"9">>, <<"0", "9">>, <<"0", "0", "7">>, <<"-", "5">>,
      <<"+", "5">>, <<"1", "_", "0">>, <<"9", ".", "5">>, <<"0", ".", "5">>,
      <<"1", ".", "0">>, <<"0", "1", ".", "5", "0">>, <<".", "5">>, <<"5", ".">>,
      <<".">>, <<"1", ".", "2", ".", "3">>, <<"-", "1", ".", "5">>,
      <<"a", "b">>, <<"D", "S">>, <<"a", ".", "b">>, <<"9", "a">> }

\* the field names given to typecast_value with every cell
CastFields ==
    { s_Time, s_Date, s_UTCOffset, <<"T", "I", "M", "E">>, Lower(s_Date),
      Lower(s_UTCOffset), s_WLCode, s_ObsCode }

\* the arguments of the calls: a field and a value
CastArgs ==
    { [field |-> s_Date, value |-> v] : v \in Datestamps }
      \cup { [field |-> s_UTCOffset, value |-> v] : v \in Offsets }
      \cup [field : CastFields, value : Cells]

CastInit ==
    /\ extcsv = EmptyDoc.extcsv
    /\ table_count = EmptyDoc.table_count
    /\ line_num = EmptyDoc.line_num
    /\ file_comments = EmptyDoc.file_comments
    /\ warnings = EmptyDoc.warnings
    /\ errors = EmptyDoc.errors
    /\ noncore_table_schema = EmptyDoc.noncore_table_schema
    /\ observations_table = EmptyDoc.observations_table
    /\ schema_has_data_table = EmptyDoc.schema_has_data_table
    /\ reports = EmptyDoc.reports
    /\ raw = <<>>
    /\ writer = FALSE
    /\ op = "none"
    /\ outcome = "none"
    /\ calls = 0
    /\ edits = 0
    /\ turn = 1
    /\ version_schema = <<>>
    /\ observed = 0
    /\ loads = 0
    /\ timestamp = <<>>
    /\ parsed = NoneValue
    /\ args \in CastArgs

\* ExtendedCSV.parse_datestamp(table, datestamp, line_num)
ParseDatestamp ==
    /\ op = "none"
    /\ Parsed(parse_datestamp(Doc, args.value, 1))
    /\ op' = "parse_datestamp"
    /\ UNCHANGED <<raw, writer, calls, edits, turn, version_schema, observed,
                   loads, timestamp, args>>

\* ExtendedCSV.parse_utcoffset(table, utcoffset, line_num)
ParseUtcoffset ==
    /\ op = "none"
    /\ Parsed(parse_utcoffset(Doc, args.value, 1))
    /\ op' = "parse_utcoffset"
    /\ UNCHANGED <<raw, writer, calls, edits, turn, version_schema, observed,
                   loads, timestamp, args>>

\* the end of a typecast_value call that left [d, v]
Typecast(r) ==
    /\ SetDoc(r.d)
    /\ outcome' = "returned"
    /\ parsed' = r.v

\* ExtendedCSV.typecast_value(table, field, value, line_num)
TypecastValue ==
    /\ op = "none"
    /\ Typecast(typecast_value(Doc, args.field, Raw(args.value), 1))
    /\ op' = "typecast_value"
    /\ UNCHANGED <<raw, writer, calls, edits, turn, version_schema, observed,
                   loads, timestamp, args>>

CastNext ==
    \/ ParseDatestamp
    \/ ParseUtcoffset
    \/ TypecastValue

CastSpec == CastInit /\ [][CastNext]_vars

\* ------------------------------------------------------------------------
\* init_table, remove_table and clear_file called on a fresh document
\* ------------------------------------------------------------------------

\* util._table_index: the stored name of occurrence <index> of a table type
table_index(table, index) ==
    IF index > 1 THEN table \o <<"_">> \o IntToStr(index) ELSE table

\* self._table_count after remove_table took one table of the type away
Uncounted_Kept(counts, table_type) == counts

Uncounted(counts, table_type) ==
    IF Get(counts, table_type) > 1
    THEN Put(counts, table_type, Get(counts, table_type) - 1)
    ELSE Del(counts, table_type)

\* ExtendedCSV.remove_table: [d, crash]; each pop raises KeyError for a
\* name that is not there, after the pops before it were done
remove_table(d, table_type, index) ==
    LET table_name == table_index(table_type, index)
    IN  IF ~Has(d.extcsv, table_name) THEN [d |-> d, crash |-> "KeyError"]
        ELSE IF ~Has(d.line_num, table_name)
        THEN [d |-> [d EXCEPT !.extcsv = Del(@, table_name)],
              crash |-> "KeyError"]
        ELSE IF ~Has(d.table_count, table_type)
        THEN [d |-> [d EXCEPT !.extcsv = Del(@, table_name),
                              !.line_num = Del(@, table_name)],
              crash |-> "KeyError"]
        ELSE [d |-> [d EXCEPT !.extcsv = Del(@, table_name),
                              !.line_num = Del(@, table_name),
                              !.table_count = Uncounted(@, table_type)],
              crash |-> "none"]

\* ExtendedCSV.clear_file: self.extcsv.clear()
clear_file(d) == [d EXCEPT !.extcsv = <<>>]

\* the table types of the calls; one is the stored name of a second table
\* of another
TableTypes == {s_TIMESTAMP, s_TIMESTAMP \o <<"_", "2">>, s_SAOZ_DATA_V2}

\* the occurrences a caller removes
Occurrences == {1, 2}

\* the document may still be called: the calls are counted in <edits>
Buildable ==
    /\ op \in {"none", "init_table", "remove_table", "clear_file"}
    /\ edits < MaxEdits

\* the end of a call that left [d, crash]
Built(r) ==
    /\ SetDoc(r.d)
    /\ outcome' = IF r.crash = "none" THEN "returned" ELSE r.crash
    /\ edits' = edits + 1
    /\ UNCHANGED <<raw, writer, calls, turn, version_schema, observed, loads,
                   timestamp, parsed>>

\* ExtendedCSV.init_table(table_name, fields, line_num), at the line after
\* those of the calls before
InitTable(table_name) ==
    /\ Buildable
    /\ Built([d |-> init_table(Doc, table_name, <<s_Date>>, edits + 1),
              crash |-> "none"])
    /\ op' = "init_table"
    /\ args' = <<table_name>>

\* ExtendedCSV.remove_table(table_type, index)
RemoveTable(table_type, index) ==
    /\ Buildable
    /\ Built(remove_table(Doc, table_type, index))
    /\ op' = "remove_table"
    /\ args' = <<table_type>>

\* ExtendedCSV.clear_file()
ClearFile ==
    /\ Buildable
    /\ Built([d |-> clear_file(Doc), crash |-> "none"])
    /\ op' = "clear_file"
    /\ args' = <<>>

TableNext ==
    \/ \E table_name \in TableTypes : InitTable(table_name)
    \/ \E table_type \in TableTypes, index \in Occurrences :
         RemoveTable(table_type, index)
    \/ ClearFile

TableSpec == Init /\ [][TableNext]_vars

\* ------------------------------------------------------------------------
\* the parser on one content line written with other delimiters
\* ------------------------------------------------------------------------

\* the delimiters of the lines: the comma and the six the parser corrects
Delimiters == Range(BadSeps) \cup {<<",">>}

\* the content lines: the cells 1, 2 and 3, or 1 and 2, in this order, with
\* any delimiter at each place
Lines ==
    { <<"1">> \o first \o <<"2">> \o second \o <<"3">> :
        first \in Delimiters, second \in Delimiters }
      \cup { <<"1">> \o first \o <<"2">> : first \in Delimiters }

\* the text of a table DAILY with three fields and the one content line,
\* as the rows csv.reader yields for it
LineText(line) ==
    Block(s_DAILY, <<s_WLCode, s_ObsCode, s_Flag>>, << Split(line, ",") >>)

LineInit ==
    /\ extcsv = EmptyDoc.extcsv
    /\ table_count = EmptyDoc.table_count
    /\ line_num = EmptyDoc.line_num
    /\ file_comments = EmptyDoc.file_comments
    /\ warnings = EmptyDoc.warnings
    /\ errors = EmptyDoc.errors
    /\ noncore_table_schema = EmptyDoc.noncore_table_schema
    /\ observations_table = EmptyDoc.observations_table
    /\ schema_has_data_table = EmptyDoc.schema_has_data_table
    /\ reports = EmptyDoc.reports
    /\ raw = <<>>
    /\ writer = FALSE
    /\ op = "none"
    /\ outcome = "none"
    /\ calls = 0
    /\ edits = 0
    /\ turn = 1
    /\ version_schema = <<>>
    /\ observed = 0
    /\ loads = 0
    /\ timestamp = <<>>
    /\ parsed = NoneValue
    /\ args \in Lines

\* Reader(content) of the text with the line
ReadLine ==
    /\ op = "none"
    /\ ConstructedAs(Parse(LineText(args)))
    /\ raw' = LineText(args)
    /\ writer' = FALSE
    /\ op' = "read"
    /\ UNCHANGED <<calls, edits, turn, version_schema, observed, loads,
                   timestamp, parsed, args>>

LineNext == ReadLine

LineSpec == LineInit /\ [][LineNext]_vars

\* ------------------------------------------------------------------------
\* the type derived from the stored name of an occurrence of a table type
\* ------------------------------------------------------------------------

\* the table types, with one that ends in a digit
NameTypes ==
    {s_CONTENT, s_TIMESTAMP, s_DAILY, s_MONTHLY, s_EXTRA, s_SAOZ_DATA_V2}

\* the occurrences, with some of two digits
NameIndexes == 1..12

NameInit ==
    /\ extcsv = EmptyDoc.extcsv
    /\ table_count = EmptyDoc.table_count
    /\ line_num = EmptyDoc.line_num
    /\ file_comments = EmptyDoc.file_comments
    /\ warnings = EmptyDoc.warnings
    /\ errors = EmptyDoc.errors
    /\ noncore_table_schema = EmptyDoc.noncore_table_schema
    /\ observations_table = EmptyDoc.observations_table
    /\ schema_has_data_table = EmptyDoc.schema_has_data_table
    /\ reports = EmptyDoc.reports
    /\ raw = <<>>
    /\ writer = FALSE
    /\ op = "none"
    /\ outcome = "none"
    /\ calls = 0
    /\ edits = 0
    /\ turn = 1
    /\ version_schema = <<>>
    /\ observed = 0
    /\ loads = 0
    /\ timestamp = <<>>
    /\ parsed = NoneValue
    /\ args \in [table : NameTypes, index : NameIndexes]

\* table_type = table_name.rstrip('0123456789_') of the collimator and the
\* validators, for the stored name of the occurrence
DeriveType ==
    /\ op = "none"
    /\ parsed' = Raw(TableType(table_index(args.table, args.index)))
    /\ outcome' = "returned"
    /\ op' = "table_type"
    /\ UNCHANGED <<extcsv, table_count, line_num, file_comments, warnings,
                   errors, raw, noncore_table_schema, observations_table,
                   schema_has_data_table, reports, writer, calls, edits,
                   turn, version_schema, observed, loads, timestamp, args>>

\* the name Writer.serialize writes after '#' for the stored name of the
\* occurrence
WriteHeader ==
    /\ op = "none"
    /\ parsed' = Raw(Tail(HeaderLine(table_index(args.table, args.index))))
    /\ outcome' = "returned"
    /\ op' = "header_line"
    /\ UNCHANGED <<extcsv, table_count, line_num, file_comments, warnings,
                   errors, raw, noncore_table_schema, observations_table,
                   schema_has_data_table, reports, writer, calls, edits,
                   turn, version_schema, observed, loads, timestamp, args>>

NameNext ==
    \/ DeriveType
    \/ WriteHeader

NameSpec == NameInit /\ [][NameNext]_vars

\* ------------------------------------------------------------------------
\* Properties
\* ------------------------------------------------------------------------

\* C1: the k-th table header with base name T that a text holds is stored
\* under T for k = 1 and under T_k for k >= 2, every header has a table of
\* its own with its own fields, the tables are in the order of their
\* headers, and table_count(T) is the number of headers T.
C1_TableNaming ==
    (op \in {"read", "read_back"} /\ outcome = "constructed") =>
      LET marks == SelectSeq([i \in 1..Len(raw) |-> i],
                             LAMBDA i : /\ Len(raw[i]) = 1
                                        /\ StartsWith(raw[i][1], <<"#">>))
          names == [i \in 1..Len(marks) |-> HeaderName(raw[marks[i]])]
          occurrence(i) == Cardinality({j \in 1..i : names[j] = names[i]})
          stored(i) == _table_index(names[i], occurrence(i))
      IN  /\ Keys(extcsv) = [i \in 1..Len(marks) |-> stored(i)]
          /\ \A i \in 1..Len(marks) :
               /\ table_count_of(Doc, names[i])
                    = Cardinality({j \in 1..Len(marks) : names[j] = names[i]})
               /\ Has(extcsv, stored(i)) =>
                    Tail_(Keys(Get(extcsv, stored(i))), 2) = raw[marks[i] + 1]

\* C2: reading back the text serialized from a validated and collimated
\* document gives the same table names, the same fields in the same order
\* and the same values, a bare value counting as a column of one.
C2_RoundTrip ==
    [][(op = "serialize" /\ op' = "read_back" /\ schema_has_data_table) =>
         LET cells(column) == IF column.list
                              THEN [i \in 1..Len(column.v) |-> CellStr(column.v[i])]
                              ELSE <<CellStr(column.v[1])>>
         IN  /\ Keys(extcsv') = Keys(extcsv)
             /\ \A i \in 1..Len(extcsv) :
                  Has(extcsv', extcsv[i].k) =>
                    LET body == extcsv[i].v
                        read == Get(extcsv', extcsv[i].k)
                    IN  /\ Keys(read) = Keys(body)
                        /\ \A k \in 2..Len(body) :
                             Has(read, body[k].k) =>
                               cells(Get(read, body[k].k)) = cells(body[k].v)
      ]_vars

\* C3: in every state all the columns of a table other than 'comments' have
\* the same length.
C3_EqualColumnLengths ==
    \A i \in 1..Len(extcsv) :
      \A j, k \in 2..Len(extcsv[i].v) :
        (extcsv[i].v[j].v.list /\ extcsv[i].v[k].v.list) =>
          Len(extcsv[i].v[j].v.v) = Len(extcsv[i].v[k].v.v)

\* C4: a text without a table marker never gives the document a table, and
\* its reading ends in NonStandardDataError: from the constructor, or from
\* validate_metadata_tables.
C4_NoTableMarker ==
    (~writer /\ op # "none"
       /\ \A i \in 1..Len(raw) : Len(raw[i]) = 0 \/ ~StartsWith(raw[i][1], <<"#">>)) =>
      /\ Len(extcsv) = 0
      /\ op \in {"read", "read_back"} =>
           outcome \in {"constructed", "NonStandardDataError"}
      /\ op = "validate_metadata" => outcome = "NonStandardDataError"

\* C4 witness: validate_metadata_tables was called on the document of a
\* text of lines without a table marker
C4_Witness ==
    /\ ~writer
    /\ op = "validate_metadata"
    /\ outcome = "NonStandardDataError"
    /\ Len(raw) > 0
    /\ \A i \in 1..Len(raw) : Len(raw[i]) = 0 \/ ~StartsWith(raw[i][1], <<"#">>)
    /\ Len(extcsv) = 0

\* C5: when a table of the Common schema is not in the document while some
\* Common table is, validate_metadata_tables raises MetadataValidationError
\* and records one missing-table error for each such table and nothing
\* else, so no missing-field error for the fields of the absent table.
C5_MissingRequiredTable ==
    [][(/\ op' = "validate_metadata"
        /\ \E i \in 1..Len(Common) : ~Has(extcsv, Common[i].k)
        /\ \E i \in 1..Len(extcsv) : Has(Common, TableType(extcsv[i].k))) =>
         /\ outcome' = "MetadataValidationError"
         /\ SubSeq(errors', Len(errors) + 1, Len(errors'))
              = [i \in 1..Cardinality({j \in 1..Len(Common) :
                                         ~Has(extcsv, Common[j].k)})
                   |-> [code |-> 201, line |-> NoLine]]
      ]_vars

\* C5 witness: metadata validation failed on a document that has a
\* TIMESTAMP table and no CONTENT table
C5_Witness ==
    /\ op = "validate_metadata"
    /\ outcome = "MetadataValidationError"
    /\ Has(extcsv, s_TIMESTAMP)
    /\ ~Has(extcsv, s_CONTENT)
    /\ [code |-> 201, line |-> NoLine] \in Range(errors)

\* C6: a validator that records an error during a call does not complete
\* normally: it raises, or it returns False.
C6_AggregateOutcome ==
    [][(op' \in {"validate_metadata", "validate_dataset"}
          /\ Len(errors') > Len(errors)) =>
         outcome' \notin {"returned", "True"}
      ]_vars

\* C7: after a validator succeeded, every table of the schema it validated
\* has the required and the optional fields of its definition and no other
\* field besides 'comments', and the number of its occurrences
\* and of its rows are within the ranges of the definition.
C7_ExactFieldSet ==
    LET exact(schema) ==
          \A i \in 1..Len(extcsv) :
            Has(schema, TableType(extcsv[i].k)) =>
              LET definition == Get(schema, TableType(extcsv[i].k))
                  occurrences == parse_integer_range(definition.occurrences)
                  count == table_count_of(Doc, TableType(extcsv[i].k))
              IN  /\ Range(Tail_(Keys(extcsv[i].v), 2))
                       = Range(definition.required_fields)
                           \cup Range(definition.optional_fields)
                  /\ count >= occurrences.lower
                  /\ ~AboveRange(count, occurrences)
                  /\ \A k \in 2..Len(extcsv[i].v) :
                       LET column == extcsv[i].v[k].v
                           height == IF column.list THEN Len(column.v) ELSE 1
                           rows == parse_integer_range(definition.rows)
                       IN  height >= rows.lower /\ ~AboveRange(height, rows)
    IN  /\ (op = "validate_metadata" /\ outcome = "returned") => exact(Common)
        /\ (op = "validate_dataset" /\ outcome = "True") => exact(DatasetTables)

\* C8: a required field that no field of the table matches, whatever the
\* letter case, is reported as missing at the field line and inserted as a
\* column of one empty cell for each row of the table.
C8_NullFilledColumn ==
    [][(/\ op' = "validate_metadata"
        /\ outcome' \in {"returned", "MetadataValidationError"}
        /\ \A i \in 1..Len(Common) : Has(extcsv, Common[i].k)) =>
         \A i \in 1..Len(extcsv) :
           (Has(Common, TableType(extcsv[i].k)) /\ Len(extcsv[i].v) >= 2
              /\ extcsv[i].v[2].v.list) =>
             LET table == extcsv[i].k
                 body == extcsv[i].v
                 required == Get(Common, TableType(table)).required_fields
             IN  \A k \in 1..Len(required) :
                   Len(CaseMatch(Keys(body), required[k])) = 0 =>
                     /\ [code |-> 203, line |-> line_num_of(Doc, table) + 1]
                          \in Range(SubSeq(errors', Len(errors) + 1, Len(errors')))
                     /\ Has(Get(extcsv', table), required[k])
                     /\ Get(Get(extcsv', table), required[k])
                          = NullColumn(Len(body[2].v.v))
      ]_vars

\* C9: a required field whose column of values holds an empty string after
\* the fields were reconciled is reported at header line + 1 + the number
\* of the first such row, and the validator raises MetadataValidationError:
\* a validator that fails has reported every such column of the tables it
\* reconciled, and a validator that succeeds had no such column.
C9_MissingRequiredValue ==
    [][LET holds_empty(column) ==
               column.list /\ \E j \in 1..Len(column.v) : column.v[j] = Raw(<<>>)
           row_of(column) == CHOOSE j \in 1..Len(column.v) :
                                 /\ column.v[j] = Raw(<<>>)
                                 /\ \A l \in 1..(j - 1) : column.v[l] # Raw(<<>>)
           new_errors == SubSeq(errors', Len(errors) + 1, Len(errors'))
           reported(schema) ==
             \A i \in 1..Len(extcsv') :
               Has(schema, TableType(extcsv'[i].k)) =>
                 LET table == extcsv'[i].k
                     body == extcsv'[i].v
                     required == Get(schema, TableType(table)).required_fields
                 IN  \A k \in 1..Len(required) :
                       (Has(body, required[k])
                          /\ holds_empty(Get(body, required[k]))) =>
                         [code |-> 204,
                          line |-> line_num_of(Doc, table) + 1
                                     + row_of(Get(body, required[k]))]
                           \in Range(new_errors)
           clean(schema) ==
             \A i \in 1..Len(extcsv) :
               Has(schema, TableType(extcsv[i].k)) =>
                 LET body == extcsv[i].v
                     required == Get(schema, TableType(extcsv[i].k)).required_fields
                 IN  \A k \in 1..Len(required) :
                       LET name == IF Has(body, required[k]) THEN required[k]
                                   ELSE CaseMatch(Keys(body), required[k])
                       IN  Has(body, name) => ~holds_empty(Get(body, name))
           all_present == \A i \in 1..Len(Common) : Has(extcsv, Common[i].k)
       IN  /\ (op' = "validate_metadata" /\ all_present
                 /\ outcome' = "MetadataValidationError") => reported(Common)
           /\ (op' = "validate_metadata" /\ outcome' = "returned") => clean(Common)
           /\ (op' = "validate_dataset"
                 /\ outcome' = "MetadataValidationError") => reported(DatasetTables)
           /\ (op' = "validate_dataset" /\ outcome' = "True") => clean(DatasetTables)
      ]_vars

\* C9 witness: metadata validation failed on a TIMESTAMP table whose Date
\* is empty in its first row
C9_Witness ==
    /\ op = "validate_metadata"
    /\ outcome = "MetadataValidationError"
    /\ Has(extcsv, s_TIMESTAMP_2)
    /\ Has(Get(extcsv, s_TIMESTAMP_2), s_Date)
    /\ Get(Get(extcsv, s_TIMESTAMP_2), s_Date) = ListCol(<<Raw(<<>>)>>)
    /\ [code |-> 204, line |-> line_num_of(Doc, s_TIMESTAMP_2) + 2] \in Range(errors)

\* C10: field reconciliation renames a field that differs from a required
\* or optional field in letter case only, keeping its values and recording
\* one capitalization warning for it; it removes a field that matches no
\* field of the definition, with a warning; it keeps 'comments'.
C10_FieldReconciliation ==
    [][(/\ op' = "validate_metadata"
        /\ outcome' \in {"returned", "MetadataValidationError"}
        /\ \A i \in 1..Len(Common) : Has(extcsv, Common[i].k)
        /\ \A i \in 1..Len(extcsv) :
             Len(extcsv[i].v) >= 2 /\ extcsv[i].v[2].v.list) =>
         \A i \in 1..Len(extcsv) :
           Has(Common, TableType(extcsv[i].k)) =>
             LET table == extcsv[i].k
                 body == extcsv[i].v
                 after == Get(extcsv', table)
                 definition == Get(Common, TableType(table))
                 declared == definition.required_fields \o definition.optional_fields
                 fieldline == line_num_of(Doc, table) + 1
                 new_warnings == SubSeq(warnings', Len(warnings) + 1, Len(warnings'))
                 count(code) ==
                     Cardinality({w \in 1..Len(new_warnings) :
                                    new_warnings[w] = [code |-> code, line |-> fieldline]})
                 miscased == {k \in 2..Len(body) :
                                /\ body[k].k \notin Range(declared)
                                /\ Len(CaseMatch(declared, body[k].k)) > 0}
                 unknown == {k \in 2..Len(body) :
                               Len(CaseMatch(declared, body[k].k)) = 0}
             IN  /\ Has(after, COMMENTS)
                 /\ \A k \in miscased :
                      /\ ~Has(after, body[k].k)
                      /\ Has(after, CaseMatch(declared, body[k].k))
                      /\ outcome' = "MetadataValidationError" =>
                           Get(after, CaseMatch(declared, body[k].k)) = body[k].v
                 /\ \A k \in unknown : ~Has(after, body[k].k)
                 /\ (\A j \in 1..Len(extcsv) :
                       j # i => line_num_of(Doc, extcsv[j].k) # line_num_of(Doc, table)) =>
                      /\ count(105) = Cardinality(miscased)
                      /\ count(250) = Cardinality(unknown)
      ]_vars

\* C11: a validator that reaches check_table_occurrences with a table type
\* of its schema whose tables in the document (the table named after the
\* type and its numbered occurrences) are fewer than the minimum or more
\* than the maximum of the declared range fails, and an excess is reported
\* at the header line of the first table beyond the maximum.
C11_OccurrenceRange ==
    [][LET schema == IF op' = "validate_metadata" THEN Common
                     ELSE noncore_table_schema'
           reached ==
               \/ /\ op' = "validate_metadata"
                  /\ \A i \in 1..Len(Common) : Has(extcsv, Common[i].k)
                  /\ outcome' \in {"returned", "MetadataValidationError"}
               \/ /\ op' = "validate_dataset"
                  /\ Len(noncore_table_schema') > 0
                  /\ outcome' \in {"True", "returned", "MetadataValidationError"}
           of_type(T) == SelectSeq(Keys(extcsv), LAMBDA k : TableType(k) = T)
           new_errors == SubSeq(errors', Len(errors) + 1, Len(errors'))
       IN  reached =>
             \A i \in 1..Len(schema) :
               LET tables == of_type(schema[i].k)
                   range == parse_integer_range(schema[i].v.occurrences)
               IN  /\ (Len(tables) < range.lower \/ AboveRange(Len(tables), range)) =>
                         outcome' = "MetadataValidationError"
                   /\ AboveRange(Len(tables), range) =>
                         [code |-> 214,
                          line |-> line_num_of(Doc, tables[range.upper + 1])]
                           \in Range(new_errors)
      ]_vars

\* C12: a validator that checks a table of its schema whose columns are
\* all empty fails when the table type is required and, when the type is
\* optional, records warning 209 at the header line and drops the table
\* from the document; it fails when the table has more rows than the
\* maximum of the declared row range.
C12_TableHeight ==
    [][LET schema == IF op' = "validate_metadata" THEN Common
                     ELSE noncore_table_schema'
           reached ==
               \/ /\ op' = "validate_metadata"
                  /\ \A i \in 1..Len(Common) : Has(extcsv, Common[i].k)
                  /\ outcome' \in {"returned", "MetadataValidationError"}
               \/ /\ op' = "validate_dataset"
                  /\ Len(noncore_table_schema') > 0
                  /\ outcome' \in {"True", "returned", "MetadataValidationError"}
           new_warnings == SubSeq(warnings', Len(warnings) + 1, Len(warnings'))
       IN  reached =>
             \A i \in 1..Len(extcsv) :
               LET table == extcsv[i].k
                   body == extcsv[i].v
                   num_rows == Len(body[2].v.v)
                   definition == Get(schema, TableType(table))
                   rows == parse_integer_range(definition.rows)
                   is_required ==
                       parse_integer_range(definition.occurrences).lower # 0
               IN  (/\ Has(schema, TableType(table))
                    /\ Len(body) >= 2
                    /\ \A k \in 2..Len(body) :
                         body[k].v.list /\ Len(body[k].v.v) = num_rows) =>
                     /\ (num_rows = 0 /\ rows.lower # 0 /\ is_required) =>
                           outcome' = "MetadataValidationError"
                     /\ (num_rows = 0 /\ rows.lower # 0 /\ ~is_required) =>
                           /\ [code |-> 209, line |-> line_num_of(Doc, table)]
                                 \in Range(new_warnings)
                           /\ ~Has(extcsv', table)
                     /\ (num_rows # 0 /\ (num_rows < rows.lower
                                           \/ AboveRange(num_rows, rows))) =>
                           outcome' = "MetadataValidationError"
      ]_vars

\* C13: when version "2" of the schema given to _determine_version has a
\* table that version "1" has not, and the document holds that table, the
\* call returns version "2".
C13_VersionResolution ==
    [][(/\ op' = "determine_version"
        /\ \E X \in Range(Get(version_schema', "2")) :
             /\ X \notin Range(Get(version_schema', "1"))
             /\ Has(extcsv, X)) =>
         outcome' = "2"
      ]_vars

\* C14: _determine_version either returns a version whose score, the
\* number of document tables in the version's unique set divided by the
\* size of that set, is the greatest of all versions and is not zero, or,
\* when every score is zero, records error 210 and raises
\* NonStandardDataError; it ends in no other way.
C14_VersionOutcome ==
    [][op' = "determine_version" =>
         LET schema == version_schema'
             versions == Range(Keys(schema))
             own(v) == { t \in Range(Get(schema, v)) :
                           \A w \in versions \ {v} : t \notin Range(Get(schema, w)) }
             hits(v) == Cardinality(Range(Keys(extcsv)) \cap own(v))
         IN  \/ /\ outcome' \in versions
                /\ hits(outcome') > 0
                /\ \A w \in versions :
                     hits(w) * Cardinality(own(outcome'))
                       <= hits(outcome') * Cardinality(own(w))
                /\ errors' = errors
             \/ /\ \A v \in versions : hits(v) = 0
                /\ outcome' = "NonStandardDataError"
                /\ errors' = Append(errors, [code |-> 210, line |-> NoLine])
      ]_vars

\* C15: when the CONTENT fields of a document do not lead validate_dataset_tables
\* to the tables of a dataset (Category, Level and Form are not the
\* collimated keys of the dataset), the call ends by raising an error: it
\* does not return, and it resolves no schema.
C15_FatalSchemaResolution ==
    [][LET content == Get(extcsv, s_CONTENT)
           leads ==
               /\ Has(extcsv, s_CONTENT)
               /\ Has(content, s_Category)
               /\ Has(content, s_Level)
               /\ Has(content, s_Form)
               /\ Get(content, s_Category)
                    = ScalarCol([t |-> "str", s |-> DatasetCategory])
               /\ Get(content, s_Level)
                    = ScalarCol([t |-> "float", s |-> DatasetLevel])
               /\ Get(content, s_Form)
                    = ScalarCol([t |-> "int", s |-> DatasetForm])
       IN  (/\ op' = "validate_dataset"
            /\ Len(noncore_table_schema) = 0
            /\ ~leads) =>
             /\ outcome' \notin {"True", "False", "returned"}
             /\ Len(noncore_table_schema') = 0
      ]_vars

\* C16: a validator that succeeds has replaced every column of raw values
\* of the tables of its schema, other than 'comments', by the typed
\* values: by the first typed value alone (None for a column without
\* values) when the table definition declares one row, and otherwise by
\* the list of the typed values in the order of the raw ones; 'comments'
\* is as it was.
C16_Collimation ==
    [][LET schema == IF op' = "validate_metadata" THEN Common
                     ELSE noncore_table_schema'
           typed(field, column) ==
               [i \in 1..Len(column.v)
                  |-> typecast_value(Doc, field, column.v[i], 0).v]
       IN  (\/ op' = "validate_metadata" /\ outcome' = "returned"
            \/ op' = "validate_dataset" /\ outcome' = "True") =>
             \A i \in 1..Len(extcsv) :
               (Has(schema, TableType(extcsv[i].k)) /\ Has(extcsv', extcsv[i].k)) =>
                 LET body == extcsv[i].v
                     after == Get(extcsv', extcsv[i].k)
                     one_row == Get(schema, TableType(extcsv[i].k)).rows = <<"1">>
                 IN  /\ Get(after, COMMENTS) = Get(body, COMMENTS)
                     /\ \A k \in 2..Len(body) :
                          (/\ Has(after, body[k].k)
                           /\ body[k].v.list
                           /\ \A j \in 1..Len(body[k].v.v) :
                                body[k].v.v[j].t = "str") =>
                            Get(after, body[k].k)
                              = IF one_row
                                THEN ScalarCol(IF Len(body[k].v.v) = 0
                                               THEN NoneValue
                                               ELSE typed(body[k].k, body[k].v)[1])
                                ELSE ListCol(typed(body[k].k, body[k].v))
      ]_vars

\* C16 witness: the dataset validator succeeded on a document that now
\* holds a bare typed value in a one-row table and a list of two typed
\* values in the data table
C16_Witness ==
    /\ op = "validate_dataset"
    /\ outcome = "True"
    /\ Has(extcsv, s_CONTENT)
    /\ Get(Get(extcsv, s_CONTENT), s_Level)
         = ScalarCol([t |-> "float", s |-> DatasetLevel])
    /\ Has(extcsv, s_DAILY)
    /\ Get(Get(extcsv, s_DAILY), s_WLCode)
         = ListCol(<<[t |-> "int", s |-> v_wlcode], [t |-> "int", s |-> v_wlcode]>>)

\* C17: a validator called again on a document whose tables it has already
\* collimated (the previous call was the same validator, it succeeded, and
\* every column of its tables other than 'comments' holds a bare value or
\* a list of typed values) leaves every value as it was and records no
\* new error or warning.
C17_CollimationIdempotent ==
    [][LET schema == IF op = "validate_metadata" THEN Common
                     ELSE noncore_table_schema
           collimated ==
               \A i \in 1..Len(extcsv) :
                 Has(schema, TableType(extcsv[i].k)) =>
                   \A k \in 2..Len(extcsv[i].v) :
                     LET column == extcsv[i].v[k].v
                     IN  IF Get(schema, TableType(extcsv[i].k)).rows = <<"1">>
                         THEN ~column.list
                         ELSE /\ column.list
                              /\ \A j \in 1..Len(column.v) :
                                   column.v[j].t # "str" \/ column.v[j] = NoneValue
       IN  (/\ \/ op = "validate_metadata" /\ outcome = "returned"
               \/ op = "validate_dataset" /\ outcome = "True"
            /\ op' = op
            /\ collimated) =>
             /\ extcsv' = extcsv
             /\ errors' = errors
             /\ warnings' = warnings
      ]_vars

\* C18: number_of_observations returns 0 when the primary data table of the
\* document cannot be identified (no data table has been resolved, and the
\* CONTENT fields Category, Level and Form are not the collimated keys of
\* the dataset); when it can, and the occurrences of the data table have
\* columns of one height, it returns the number of distinct rows of all
\* the occurrences together, identical rows counted once.
C18_DistinctObservations ==
    [][LET content == Get(extcsv, s_CONTENT)
           identified ==
               \/ Len(observations_table) > 0
               \/ /\ Has(extcsv, s_CONTENT)
                  /\ Has(content, s_Category)
                  /\ Has(content, s_Level)
                  /\ Has(content, s_Form)
                  /\ Get(content, s_Category)
                       = ScalarCol([t |-> "str", s |-> DatasetCategory])
                  /\ Get(content, s_Level)
                       = ScalarCol([t |-> "float", s |-> DatasetLevel])
                  /\ Get(content, s_Form)
                       = ScalarCol([t |-> "int", s |-> DatasetForm])
           occurrences ==
               { i \in 1..Len(extcsv) : TableType(extcsv[i].k) = DatasetDataTable }
           fields(i) == { k \in 1..Len(extcsv[i].v) : extcsv[i].v[k].k # COMMENTS }
           rectangular ==
               \A i \in occurrences :
                 \A k, l \in fields(i) :
                   /\ extcsv[i].v[k].v.list
                   /\ Len(extcsv[i].v[k].v.v) = Len(extcsv[i].v[l].v.v)
           row(i, r) == [k \in 1..(Len(extcsv[i].v) - 1) |-> extcsv[i].v[k + 1].v.v[r]]
           rows ==
               UNION { { row(i, r) : r \in 1..Len(extcsv[i].v[2].v.v) } :
                         i \in { o \in occurrences : fields(o) # {} } }
       IN  op' = "number_of_observations" =>
             /\ ~identified => outcome' = "returned" /\ observed' = 0
             /\ (identified /\ rectangular) =>
                   outcome' = "returned" /\ observed' = Cardinality(rows)
      ]_vars

\* C19: parse_timestamp given H:M:S of non-negative integers without a
\* meridiem marker returns the time of day whose seconds since midnight are
\* 3600*H + 60*M + S, seconds carried into minutes and minutes into hours,
\* and raises ValueError exactly when the hour after the carries is not in
\* 0..23.
C19_TimeCarry ==
    \A h \in Hours, m \in Minutes, sec \in Seconds :
      (op = "parse_timestamp" /\ timestamp = TimeText(h, m, sec, <<>>)) =>
        LET total == 3600 * h + 60 * m + sec
        IN  IF total \div 3600 \in 0..23
            THEN /\ outcome = "returned"
                 /\ parsed = [t |-> "time",
                              s |-> TimeStr(total \div 3600, (total % 3600) \div 60,
                                            total % 60)]
            ELSE outcome = "ValueError"

\* C19 witness: 08:84:150 was parsed as 09:26:30
C19_Witness ==
    /\ op = "parse_timestamp"
    /\ timestamp = TimeText(8, 84, 150, <<>>)
    /\ outcome = "returned"
    /\ parsed = [t |-> "time", s |-> TimeStr(9, 26, 30)]

\* C20: parse_timestamp given H:M:S followed by am or pm in any letter case
\* takes the marker off and adjusts the hour, 12 to 0 with am and every hour
\* but 12 by twelve more with pm; the result is that of the adjusted hour
\* with M and S, the marker being no component of the time.
C20_Meridiem ==
    \A h \in Hours, m \in Minutes, sec \in Seconds, marker \in Markers \ {<<>>} :
      (op = "parse_timestamp" /\ timestamp = TimeText(h, m, sec, marker)) =>
        LET noon_indicator == Lower(Strip(marker))
            hour == IF noon_indicator = <<"a", "m">> /\ h = 12 THEN 0
                    ELSE IF noon_indicator = <<"p", "m">> /\ h # 12 THEN h + 12
                    ELSE h
            total == 3600 * hour + 60 * m + sec
        IN  IF total \div 3600 \in 0..23
            THEN /\ outcome = "returned"
                 /\ parsed = [t |-> "time",
                              s |-> TimeStr(total \div 3600, (total % 3600) \div 60,
                                            total % 60)]
            ELSE outcome = "ValueError"

\* C21: parse_datestamp returns a date only when its input, every
\* separator other than '-' replaced by '-', splits into exactly three
\* integers, the year in 1924..present year, the month in 1..12 and the
\* day in 1..31; on every other input it raises ValueError and gives no
\* date.
C21_DateContract ==
    op = "parse_datestamp" =>
      LET parts == Split(ReplaceChars(args.value,
                                      Range(args.value) \ WordChars, "-"), "-")
          wellformed ==
              /\ Len(parts) = 3
              /\ \A i \in 1..3 : IsPyInt(parts[i])
              /\ PyInt(parts[1]) \in 1924..PresentYear
              /\ PyInt(parts[2]) \in 1..12
              /\ PyInt(parts[3]) \in 1..31
      IN  /\ outcome \in {"returned", "ValueError"}
          /\ outcome = "returned" => wellformed /\ parsed.t = "date"
          /\ ~wellformed => outcome = "ValueError" /\ parsed = NoneValue

\* C21 witness: 1996/01/12 was parsed as the date 1996-01-12
C21_Witness ==
    /\ op = "parse_datestamp"
    /\ args.value = DateText(1996, 1, 12, <<"/">>)
    /\ outcome = "returned"
    /\ parsed = [t |-> "date", s |-> DateStr(1996, 1, 12)]

\* C22: parse_datestamp accepts every input of three integers with the
\* year in 1924..present year, the month in 1..12 and the day in 1..31,
\* and returns it as a date, whether the calendar has that day or not.
C22_NoCalendarCheck ==
    \A y \in Years, m \in Months, day \in Days :
      (/\ op = "parse_datestamp"
       /\ args.value = DateText(y, m, day, <<"-">>)
       /\ y \in 1924..PresentYear /\ m \in 1..12 /\ day \in 1..31) =>
        /\ outcome = "returned"
        /\ parsed = [t |-> "date", s |-> DateStr(y, m, day)]

\* C23: parse_utcoffset given an optional sign, an hour of one or two
\* digits and, each after a separator, an optional minute and second of up
\* to two digits returns sign HH:MM:SS, a missing minute or second being
\* 00, single digits padded, the sign '+' when none is given or when the
\* offset is zero, and '+-' taken as '-'; it raises ValueError when the
\* hour is above 23 or the minute or second above 59.  A string of zeros
\* gives +00:00:00, and every other text raises ValueError.
C23_UTCOffsetCanonical ==
    /\ \A o \in OffsetParts :
         (op = "parse_utcoffset" /\ args.value = OffsetText(o)) =>
           LET h == StrToInt(o.hour)
               m == IF o.has_minute THEN StrToInt(o.minute) ELSE 0
               sec == IF o.has_minute /\ o.has_second THEN StrToInt(o.second)
                      ELSE 0
               sign == IF h = 0 /\ m = 0 /\ sec = 0 THEN <<"+">>
                       ELSE IF o.sign = <<>> THEN <<"+">>
                       ELSE IF o.sign = <<"+", "-">> THEN <<"-">>
                       ELSE o.sign
           IN  IF h > 23 \/ m > 59 \/ sec > 59
               THEN outcome = "ValueError"
               ELSE /\ outcome = "returned"
                    /\ parsed = [t |-> "str", s |-> sign \o TimeStr(h, m, sec)]
    /\ (op = "parse_utcoffset"
          /\ args.value \in {<<"0", "0", "0">>, <<"+", "0", "0", "0", "0", "0", "0">>,
                             <<"-", "0", "0", "0", ":", "0">>}) =>
         /\ outcome = "returned"
         /\ parsed = [t |-> "str", s |-> <<"+">> \o TimeStr(0, 0, 0)]
    /\ (op = "parse_utcoffset"
          /\ args.value \in {<<"+">>, <<"1", "2", "3">>, <<"a", "b">>,
                             <<"0", "8", ":", "0", "0", ":", "0", "0", ":", "0", "0">>,
                             <<"+", "0", "8", ":", "0", "0", "0">>,
                             <<"-", "+", "0", "8">>}
                           \cup Datestamps) =>
         outcome = "ValueError"

\* C23 witness: +-08:00:00 was parsed as -08:00:00
C23_Witness ==
    /\ op = "parse_utcoffset"
    /\ args.value = <<"+", "-", "0", "8", ":", "0", "0", ":", "0", "0">>
    /\ outcome = "returned"
    /\ parsed = [t |-> "str", s |-> <<"-">> \o TimeStr(8, 0, 0)]

\* C24: typecast_value always returns.  An empty cell gives None; a cell
\* of a field named Time, Date or UTCOffset in any letter case gives what
\* the parser of that name gives, or, when the parser fails, the cell as
\* it was, with error 335 recorded after the parser's own diagnostics;
\* any other cell with a '.' gives a float when it is one, a cell of more
\* than one character that starts with '0' stays a string, another cell
\* gives an integer when it is one, and a cell that is none of these stays
\* as it was.
C24_Typecast ==
    op = "typecast_value" =>
      LET value == args.value
          lowered == Lower(args.field)
          parser(r) ==
              IF r.ok
              THEN parsed = r.v /\ warnings = r.d.warnings /\ errors = r.d.errors
              ELSE /\ parsed = Raw(value)
                   /\ warnings = r.d.warnings
                   /\ errors = Append(r.d.errors, [code |-> 335, line |-> 1])
          quiet == warnings = <<>> /\ errors = <<>>
      IN  /\ outcome = "returned"
          /\ IF value = <<>> THEN parsed = NoneValue /\ quiet
             ELSE IF lowered = <<"t", "i", "m", "e">>
             THEN parser(parse_timestamp(EmptyDoc, value, 1))
             ELSE IF lowered = <<"d", "a", "t", "e">>
             THEN parser(parse_datestamp(EmptyDoc, value, 1))
             ELSE IF lowered = <<"u", "t", "c", "o", "f", "f", "s", "e", "t">>
             THEN parser(parse_utcoffset(EmptyDoc, value, 1))
             ELSE IF "." \in Range(value)
             THEN /\ quiet
                  /\ parsed = IF IsPyFloat(value)
                              THEN [t |-> "float", s |-> FloatStr(value)]
                              ELSE Raw(value)
             ELSE IF Len(value) > 1 /\ value[1] = "0"
             THEN quiet /\ parsed = Raw(value)
             ELSE /\ quiet
                  /\ parsed = IF IsPyInt(value)
                              THEN [t |-> "int", s |-> IntStr(value)]
                              ELSE Raw(value)

\* C24 witness: the cell 007 of the field WLCode stayed the string 007
C24_Witness ==
    /\ op = "typecast_value"
    /\ args = [field |-> s_WLCode, value |-> <<"0", "0", "7">>]
    /\ outcome = "returned"
    /\ parsed = Raw(<<"0", "0", "7">>)

\* C25: while a document is parsed, the diagnostics are recorded in the
\* order of their lines: of two diagnostics the constructor records, the
\* one recorded later has no smaller line number.
C25_DiagnosticOrder ==
    op = "read" =>
      \A i, j \in 1..Len(reports) : i < j => reports[i].line <= reports[j].line

\* C26: after a validation step that failed (it raised, or returned
\* False), no table of the document holds typed values: every column
\* other than 'comments' is a list of raw strings.
C26_NoPartialTyping ==
    [][(/\ op' \in {"validate_metadata", "validate_dataset"}
        /\ outcome' \notin {"returned", "True"}) =>
         \A i \in 1..Len(extcsv') :
           \A k \in 1..Len(extcsv'[i].v) :
             LET column == extcsv'[i].v[k].v
             IN  extcsv'[i].v[k].k # COMMENTS =>
                   /\ column.list
                   /\ \A j \in 1..Len(column.v) : column.v[j].t = "str"
      ]_vars

\* C27: serialize succeeds on every document and leaves the document as it
\* was; the text is the file comments and one blank line (when there are
\* any), then for each table in insertion order the header with the name of
\* its type, the fields, one row per value index with a missing value
\* written as an empty cell and only trailing empty cells trimmed, and the
\* comments of the table; a blank line follows every table but the last.
C27_Serialize ==
    [][op' = "serialize" =>
         LET n == Len(extcsv)
             start == IF Len(file_comments) = 0 THEN 0 ELSE Len(file_comments) + 1
             fields(i) == Tail_(Keys(extcsv[i].v), 2)
             column(i, k) == extcsv[i].v[k + 1].v
             rows(i) == LET lens == {ColumnLen(column(i, k)) : k \in 1..Len(fields(i))}
                                      \cup {0}
                        IN  CHOOSE m \in lens : \A l \in lens : l <= m
             cell(i, k, j) == IF ~column(i, k).list THEN CellStr(column(i, k).v[1])
                              ELSE IF j <= Len(column(i, k).v)
                              THEN CellStr(column(i, k).v[j])
                              ELSE <<>>
             row(i, j) == [k \in 1..Len(fields(i)) |-> cell(i, k, j)]
             trimmed(i, j) ==
                 LET last == {k \in 2..Len(fields(i)) : row(i, j)[k] # <<>>} \cup {1}
                 IN  SubSeq(row(i, j), 1, CHOOSE m \in last : \A l \in last : l <= m)
             t_comments(i) == extcsv[i].v[1].v.v
             height(i) == 2 + rows(i) + Len(t_comments(i)) + (IF i < n THEN 1 ELSE 0)
             at[i \in 1..(n + 1)] == IF i = 1 THEN start ELSE at[i - 1] + height(i - 1)
             types(i) == {B \in Range(Keys(table_count)) :
                            \/ extcsv[i].k = B
                            \/ \E c \in 2..table_count_of(Doc, B) :
                                 extcsv[i].k = B \o <<"_">> \o IntToStr(c)}
         IN  /\ outcome' = "serialized"
             /\ extcsv' = extcsv
             /\ Len(raw') = at[n + 1]
             /\ \A c \in 1..Len(file_comments) : raw'[c] = CommentRow(file_comments[c])
             /\ Len(file_comments) # 0 => raw'[start] = <<>>
             /\ \A i \in 1..n :
                  /\ \E B \in types(i) : raw'[at[i] + 1] = << <<"#">> \o B >>
                  /\ raw'[at[i] + 2] = fields(i)
                  /\ \A j \in 1..rows(i) : raw'[at[i] + 2 + j] = trimmed(i, j)
                  /\ \A c \in 1..Len(t_comments(i)) :
                       raw'[at[i] + 2 + rows(i) + c] = CommentRow(t_comments(i)[c].s)
                  /\ i < n => raw'[at[i + 1]] = <<>>
      ]_vars

\* C28: after every call of init_table, remove_table and clear_file the
\* count of each table type is the number of stored tables of that type
\* (a stored name that is no counted type itself, and is the name of a later
\* occurrence of a counted type, is a table of that type), the names with a
\* header line are the names of the stored tables, and a call of init_table
\* has added one table and left the others in their places.
C28_Bookkeeping ==
    [][LET later(name, B) ==
               /\ ~Has(table_count', name)
               /\ Has(table_count', B)
               /\ \E n \in 2..(Len(extcsv') + MaxEdits) : name = table_index(B, n)
           stored(B) ==
               {i \in 1..Len(extcsv') :
                  \/ later(extcsv'[i].k, B)
                  \/ /\ extcsv'[i].k = B
                     /\ \A T \in TableTypes : ~later(B, T)}
       IN  /\ \A B \in TableTypes :
                (IF Has(table_count', B) THEN Get(table_count', B) ELSE 0)
                  = Cardinality(stored(B))
           /\ Range(Keys(line_num')) = Range(Keys(extcsv'))
           /\ op' = "init_table" =>
                /\ Len(extcsv') = Len(extcsv) + 1
                /\ SubSeq(extcsv', 1, Len(extcsv)) = extcsv
      ]_vars

\* C29: a content line written with disallowed delimiters gets one warning
\* 104 for each distinct disallowed delimiter on it, and its row holds the
\* cells, in their order, that the line would have with a comma for every
\* delimiter, also when the line mixes delimiters.
C29_DelimiterCorrection ==
    op = "read" =>
      LET found == {i \in 1..Len(BadSeps) : Contains(args, BadSeps[i])}
          commas[i \in 0..Len(BadSeps)] ==
              IF i = 0 THEN args ELSE Replace(commas[i - 1], BadSeps[i], <<",">>)
          cells == Split(commas[Len(BadSeps)], ",")
          body == Get(extcsv, s_DAILY)
          fields == <<s_WLCode, s_ObsCode, s_Flag>>
      IN  /\ outcome = "constructed"
          /\ Cardinality({i \in 1..Len(warnings) : warnings[i].code = 104})
               = Cardinality(found)
          /\ \A k \in 1..Len(fields) :
               Get(body, fields[k]).v
                 = << Raw(IF k <= Len(cells) THEN cells[k] ELSE <<>>) >>

\* C30: the type the validators, the collimator and the serializer derive
\* from the stored name of occurrence n of a table type is that type, also
\* for a type that ends in a digit.
C30_BaseNameRecovery ==
    op \in {"table_type", "header_line"} => parsed = Raw(args.table)

====
